---- MODULE Spec2Model ----
(***************************************************************************)
(* Nestera savings contract: the accounting and lifecycle engine.          *)
(*                                                                         *)
(* One action per contract operation.  A contract invocation is atomic: an *)
(* invocation that returns Err or panics leaves the ledger untouched (the  *)
(* host discards its writes), one that returns Ok commits every write it   *)
(* made.  Helper functions called inside an invocation are modelled as     *)
(* operators that return the result together with the storage as written   *)
(* up to the point of return, so that a caller that swallows the Err (the  *)
(* batch executor) keeps those writes, exactly as the code does.           *)
(*                                                                         *)
(* Authorization (require_auth) is assumed granted for the address passed  *)
(* to the call; storage TTL bookkeeping is not modelled.                   *)
(***************************************************************************)
EXTENDS Integers, Sequences, FiniteSets, TLC

\* ---------------------------------------------------------------- bounds
\* u64::MAX and i128::MAX, scaled down to the size of the model.  I128_MAX
\* keeps room for SmallAmount * MAX_FEE_BPS / 2, so that a product of an
\* amount and a fee rate overflows for some amounts and rates only.
U64_MAX == 1300
I128_MAX == 20000
\* latest start time handed to create_autosave
MaxTime == 3
\* the ledger clock stays far below u64::MAX
MaxNow == 2
\* an everyday amount, far below I128_MAX
SmallAmount == 3
MaxSchedules == 1
\* longest list of ids handed to the batch executor
MaxBatch == 2
MaxGoals == 1
MaxLocks == 1
MaxGroups == 1
\* Plans of one product created in the specification of the id counters.
MaxIds == 2
MaxFeeAmount == 12

\* ------------------------------------------------------ program constants
MAX_FEE_BPS == 10000
BPS_DENOMINATOR == 10000
\* the default rate of a plan, in basis points a year
INTEREST_RATE == 500
\* 365.25 * 24 * 3600
SECONDS_PER_YEAR == 31557600

\* -------------------------------------------------------------- inputs
Users == {"u1", "u2"}
ADMIN == "admin"
TREASURY == "tr"
NoAddress == "none"
\* an amount of the order of I128_MAX: the third one held overflows
BigAmount == 3 * (I128_MAX \div 8)
Amounts == {-1, 0, BigAmount}
\* no fee, a third and a bit (the fee of BigAmount and of SmallAmount has to
\* round down), and a rate above the maximum
FeeBpsInputs == {0, 3334, MAX_FEE_BPS + 1}
Times == 0..MaxTime
Intervals == {0, 1, U64_MAX}
ScheduleIds == 1..(MaxSchedules + 1)
\* every list of schedule ids of length 0..MaxBatch, repeated and unknown
\* ids included
BatchInputs == UNION {[1..n -> ScheduleIds] : n \in 0..MaxBatch}

VARIABLES
    now,              \* env.ledger().timestamp()
    paused,           \* DataKey::Paused
    platformFee,      \* DataKey::PlatformFee (protocol fee bps)
    feeRecipient,     \* DataKey::FeeRecipient, NoAddress when unset
    config,           \* DataKey::ConfigInitialized, Treasury, ProtocolFeeBps
    users,            \* DataKey::User(addr) -> User, registered addresses only
    flexiBalance,     \* DataKey::FlexiBalance(addr), 0 when unset
    feeBalance,       \* DataKey::TotalBalance(recipient), 0 when unset
    autosaves,        \* DataKey::AutoSave(id) -> AutoSave
    nextAutoSaveId,   \* DataKey::NextAutoSaveId
    userAutoSaves,    \* DataKey::UserAutoSaves(addr)
    scheduleLog,      \* history: id -> start_time given at creation and the
                      \* number of successful executions so far
    earlyBreakFee,    \* DataKey::EarlyBreakFeeBps
    goals,            \* DataKey::GoalSave(id) -> GoalSave
    nextGoalId,       \* DataKey::NextGoalId
    userGoalSaves,    \* DataKey::UserGoalSaves(addr)
    goalLog,          \* history: id -> successful exits and payouts so far
    locks,            \* DataKey::LockSave(id) -> LockSave
    nextLockId,       \* DataKey::NextLockId
    userLockSaves,    \* DataKey::UserLockSaves(addr)
    lockLog,          \* history: id -> successful withdrawals so far
    groups,           \* DataKey::GroupSave(id) -> GroupSave
    nextGroupId,      \* DataKey::NextGroupId
    groupMembers,     \* DataKey::GroupMembers(id)
    groupContribution,\* DataKey::GroupMemberContribution(id, addr)
    userGroupSaves,   \* DataKey::UserGroupSaves(addr)
    groupLog,         \* history: (id, addr) -> the amounts of that member's
                      \* successful contributions, added up
    last              \* the last invocation: operation, arguments, outcome

goalVars == <<earlyBreakFee, goals, nextGoalId, userGoalSaves, goalLog>>
lockVars == <<locks, nextLockId, userLockSaves, lockLog>>
groupVars == <<groups, nextGroupId, groupMembers, groupContribution,
               userGroupSaves, groupLog>>
planVars == <<goalVars, lockVars, groupVars>>

vars == <<now, paused, platformFee, feeRecipient, config, users, flexiBalance,
          feeBalance, autosaves, nextAutoSaveId, userAutoSaves, scheduleLog,
          planVars, last>>

configVars == <<paused, platformFee, feeRecipient, config>>
autosaveVars == <<autosaves, nextAutoSaveId, userAutoSaves, scheduleLog>>
ledgerVars == <<users, flexiBalance, feeBalance>>

\* ------------------------------------------------------------- helpers
EmptyMap == [x \in {} |-> 0]

\* The record of one invocation.  Fields an operation does not use keep
\* their neutral value.
Call(op, caller, id, amount, res, ret) ==
    [op |-> op, caller |-> caller, id |-> id, amount |-> amount,
     res |-> res, ret |-> ret, ids |-> <<>>, results |-> <<>>]

BatchCall(ids, res, results) ==
    [op |-> "execute_due_autosaves", caller |-> NoAddress, id |-> 0,
     amount |-> 0, res |-> res, ret |-> 0, ids |-> ids, results |-> results]

\* No invocation is in progress: the previous result has been handed back.
NoCall == Call("none", NoAddress, 0, 0, "Ok", 0)
Idle == last = NoCall

\* The part of storage flexi_deposit / flexi_withdraw read and write.
Ledger == [flexi |-> flexiBalance, users |-> users, fees |-> feeBalance]

Out(res, db) == [res |-> res, db |-> db]

\* fee = floor(amount * bps / 10000); 0 when bps = 0; a result that does not
\* fit saturates to 0
calculate_fee(amount, fee_bps) ==
    IF fee_bps = 0 THEN 0
    ELSE LET r == (amount * fee_bps) \div BPS_DENOMINATOR
         IN IF r > I128_MAX \/ r < -I128_MAX - 1 THEN 0 ELSE r

ensure_not_paused == ~paused

\* A faulty variant of the early return below, which lets a paused contract
\* carry on.
NeverRefused == FALSE

\* `ensure_not_paused(env)?`: the operation returns the error at once
RefusedWhilePaused == ~ensure_not_paused

\* A faulty variant of the lookup below, which never finds a recipient.
NeverConfigured == FALSE

\* `if let Some(fee_recipient) = ...get(&DataKey::FeeRecipient)`
RecipientConfigured == feeRecipient # NoAddress

\* Credit of a fee to the configured recipient (the block repeated at the end
\* of every fee-bearing operation).
RouteFee(db, fee_amount) ==
    IF fee_amount > 0 /\ RecipientConfigured
    THEN IF db.fees[feeRecipient] + fee_amount > I128_MAX
         THEN Out("Overflow", db)
         ELSE Out("Ok", [db EXCEPT !.fees[feeRecipient] = @ + fee_amount])
    ELSE Out("Ok", db)

\* ---------------------------------------------------------------- flexi
\* Faulty variants of the two steps below, used to show that the properties
\* of the Flexi operations depend on them.
GrossAmount(amount, fee_amount) == amount
NeverInsufficient(balance, amount) == FALSE

NetAmount(amount, fee_amount) == amount - fee_amount
Insufficient(balance, amount) == balance < amount

flexi_deposit(db, user, amount) ==
    IF RefusedWhilePaused THEN Out("ContractPaused", db)
    ELSE IF amount <= 0 THEN Out("InvalidAmount", db)
    ELSE
      LET fee_amount == calculate_fee(amount, platformFee)
          net_amount == NetAmount(amount, fee_amount)
      IN
      IF net_amount < -I128_MAX - 1 THEN Out("Underflow", db)
      ELSE IF db.flexi[user] + net_amount > I128_MAX THEN Out("Overflow", db)
      ELSE
        LET db1 == [db EXCEPT !.flexi[user] = @ + net_amount] IN
        IF user \notin DOMAIN db1.users THEN Out("UserNotFound", db1)
        ELSE IF db1.users[user].total_balance + net_amount > I128_MAX
             THEN Out("Overflow", db1)
        ELSE
          LET db2 == [db1 EXCEPT !.users[user].total_balance = @ + net_amount]
          IN RouteFee(db2, fee_amount)

flexi_withdraw(db, user, amount) ==
    IF RefusedWhilePaused THEN Out("ContractPaused", db)
    ELSE IF amount <= 0 THEN Out("InvalidAmount", db)
    ELSE
      LET fee_amount == calculate_fee(amount, platformFee)
          net_amount == NetAmount(amount, fee_amount)
      IN
      IF net_amount < -I128_MAX - 1 THEN Out("Underflow", db)
      ELSE IF Insufficient(db.flexi[user], amount)
      THEN Out("InsufficientBalance", db)
      ELSE
        LET db1 == [db EXCEPT !.flexi[user] = @ - amount]
            db2 == IF user \in DOMAIN db1.users
                   THEN [db1 EXCEPT !.users[user].total_balance = @ - amount]
                   ELSE db1
        IN
        IF user \in DOMAIN db1.users
           /\ db1.users[user].total_balance - amount < -I128_MAX - 1
        THEN Out("Underflow", db1)
        ELSE RouteFee(db2, fee_amount)

\* An invocation commits its writes only when it returns Ok.
Commit(out) ==
    IF out.res = "Ok"
    THEN /\ flexiBalance' = out.db.flexi
         /\ users' = out.db.users
         /\ feeBalance' = out.db.fees
    ELSE UNCHANGED ledgerVars

FlexiDeposit(user, amount) ==
    /\ Idle
    /\ LET out == flexi_deposit(Ledger, user, amount) IN
       /\ Commit(out)
       /\ last' = Call("flexi_deposit", user, 0, amount, out.res, 0)
       /\ UNCHANGED <<planVars, now, configVars, autosaveVars>>

FlexiWithdraw(user, amount) ==
    /\ Idle
    /\ LET out == flexi_withdraw(Ledger, user, amount) IN
       /\ Commit(out)
       /\ last' = Call("flexi_withdraw", user, 0, amount, out.res, 0)
       /\ UNCHANGED <<planVars, now, configVars, autosaveVars>>

\* ---------------------------------------------------------------- users
\* A faulty variant of the lookup below, which finds a record for everyone.
AnyoneExists(user) == TRUE

\* Another faulty variant, which finds no record at all.
NobodyExists(user) == FALSE

user_exists(user) == user \in DOMAIN users

NewUser == [total_balance |-> 0, savings_count |-> 0]

InitializeUser(user) ==
    /\ Idle
    /\ IF user_exists(user)
       THEN /\ UNCHANGED users
            /\ last' = Call("initialize_user", user, 0, 0, "UserAlreadyExists", 0)
       ELSE /\ users' = users @@ (user :> NewUser)
            /\ last' = Call("initialize_user", user, 0, 0, "Ok", 0)
    /\ UNCHANGED <<planVars, now, configVars, flexiBalance, feeBalance, autosaveVars>>

\* ------------------------------------------------------------- autosave
\* `wrap` is the build's treatment of an overflowing `+=` on a u64: FALSE
\* when the build panics on overflow (overflow-checks on), TRUE when it
\* wraps around.
AdvanceOverflows(schedule) ==
    schedule.next_execution_time + schedule.interval_seconds > U64_MAX

Advance(schedule) ==
    [schedule EXCEPT !.next_execution_time =
        (@ + schedule.interval_seconds) % (U64_MAX + 1)]

\* Faulty variants of the three guards below, used to show that the
\* properties of the schedule operations depend on them.
InactiveIgnored(schedule) == FALSE
DueOnlyAfter(schedule) == now <= schedule.next_execution_time
OwnerNotChecked(schedule, user) == FALSE

Inactive(schedule) == ~schedule.is_active
NotYetDue(schedule) == now < schedule.next_execution_time
NotOwner(schedule, user) == schedule.user # user

LogRun(log, id) == [log EXCEPT ![id].runs = @ + 1]

create_autosave(user, amount, interval_seconds, start_time) ==
    /\ Idle
    /\ LET res == IF amount <= 0 THEN "InvalidAmount"
                  ELSE IF interval_seconds = 0 THEN "InvalidTimestamp"
                  ELSE IF ~user_exists(user) THEN "UserNotFound"
                  ELSE "Ok"
           schedule_id == nextAutoSaveId
           schedule == [id |-> schedule_id, user |-> user, amount |-> amount,
                        interval_seconds |-> interval_seconds,
                        next_execution_time |-> start_time,
                        is_active |-> TRUE]
       IN
       IF res = "Ok"
       THEN /\ autosaves' = autosaves @@ (schedule_id :> schedule)
            /\ userAutoSaves' =
                 [userAutoSaves EXCEPT ![user] = Append(@, schedule_id)]
            /\ nextAutoSaveId' = nextAutoSaveId + 1
            /\ scheduleLog' = scheduleLog @@
                 (schedule_id :> [start_time |-> start_time, runs |-> 0])
            /\ last' = Call("create_autosave", user, schedule_id, amount,
                            "Ok", schedule_id)
       ELSE /\ UNCHANGED autosaveVars
            /\ last' = Call("create_autosave", user, 0, amount, res, 0)
    /\ UNCHANGED <<planVars, now, configVars, ledgerVars>>

\* create_autosave while fewer than the modelled number of plans exist.
CreateAutosave(user, amount, interval_seconds, start_time) ==
    /\ nextAutoSaveId <= MaxSchedules
    /\ create_autosave(user, amount, interval_seconds, start_time)

\* execute_autosave as a function of the storage it sees: the result, the
\* ledger and the schedules as written up to the point of return.
execute_autosave(db, scheds, schedule_id, wrap) ==
    IF schedule_id \notin DOMAIN scheds
    THEN [res |-> "PlanNotFound", db |-> db, scheds |-> scheds]
    ELSE
      LET schedule == scheds[schedule_id] IN
      IF Inactive(schedule)
      THEN [res |-> "InvalidPlanConfig", db |-> db, scheds |-> scheds]
      ELSE IF NotYetDue(schedule)
      THEN [res |-> "InvalidTimestamp", db |-> db, scheds |-> scheds]
      ELSE
        LET dep == flexi_deposit(db, schedule.user, schedule.amount) IN
        IF dep.res # "Ok"
        THEN [res |-> dep.res, db |-> dep.db, scheds |-> scheds]
        ELSE IF AdvanceOverflows(schedule) /\ ~wrap
        THEN [res |-> "Panic", db |-> dep.db, scheds |-> scheds]
        ELSE [res |-> "Ok", db |-> dep.db,
              scheds |-> [scheds EXCEPT ![schedule_id] = Advance(schedule)]]

ExecuteAutosave(schedule_id, wrap) ==
    /\ Idle
    /\ LET out == execute_autosave(Ledger, autosaves, schedule_id, wrap) IN
       /\ Commit(out)
       /\ IF out.res = "Ok"
          THEN /\ autosaves' = out.scheds
               /\ scheduleLog' = LogRun(scheduleLog, schedule_id)
          ELSE UNCHANGED <<autosaves, scheduleLog>>
       /\ last' = Call("execute_autosave", NoAddress, schedule_id, 0, out.res, 0)
       /\ UNCHANGED <<planVars, now, configVars, nextAutoSaveId, userAutoSaves>>

\* The loop of execute_due_autosaves from index i on: st carries the ledger,
\* the schedules, the log and the results pushed so far.
RECURSIVE due_loop(_, _, _, _)
due_loop(st, schedule_ids, i, wrap) ==
    IF i > Len(schedule_ids) THEN st
    ELSE
      LET schedule_id == schedule_ids[i]
          skip == [st EXCEPT !.results = Append(@, FALSE)]
      IN
      IF schedule_id \notin DOMAIN st.scheds
      THEN due_loop(skip, schedule_ids, i + 1, wrap)
      ELSE
        LET schedule == st.scheds[schedule_id] IN
        IF Inactive(schedule)
        THEN due_loop(skip, schedule_ids, i + 1, wrap)
        ELSE IF NotYetDue(schedule)
        THEN due_loop(skip, schedule_ids, i + 1, wrap)
        ELSE
          LET dep == flexi_deposit(st.db, schedule.user, schedule.amount) IN
          IF dep.res # "Ok"
          THEN due_loop([skip EXCEPT !.db = dep.db], schedule_ids, i + 1, wrap)
          ELSE IF AdvanceOverflows(schedule) /\ ~wrap
          THEN [st EXCEPT !.res = "Panic"]
          ELSE due_loop(
                 [st EXCEPT !.db = dep.db,
                            !.scheds[schedule_id] = Advance(schedule),
                            !.log = LogRun(@, schedule_id),
                            !.results = Append(@, TRUE)],
                 schedule_ids, i + 1, wrap)

execute_due_autosaves(db, scheds, log, schedule_ids, wrap) ==
    due_loop([res |-> "Ok", db |-> db, scheds |-> scheds, log |-> log,
              results |-> <<>>], schedule_ids, 1, wrap)

ExecuteDueAutosaves(schedule_ids, wrap) ==
    /\ Idle
    /\ LET out == execute_due_autosaves(Ledger, autosaves, scheduleLog,
                                        schedule_ids, wrap)
       IN
       /\ Commit(out)
       /\ IF out.res = "Ok"
          THEN /\ autosaves' = out.scheds
               /\ scheduleLog' = out.log
               /\ last' = BatchCall(schedule_ids, "Ok", out.results)
          ELSE /\ UNCHANGED <<autosaves, scheduleLog>>
               /\ last' = BatchCall(schedule_ids, out.res, <<>>)
       /\ UNCHANGED <<planVars, now, configVars, nextAutoSaveId, userAutoSaves>>

CancelAutosave(user, schedule_id) ==
    /\ Idle
    /\ LET res == IF schedule_id \notin DOMAIN autosaves THEN "PlanNotFound"
                  ELSE IF NotOwner(autosaves[schedule_id], user)
                       THEN "Unauthorized"
                  ELSE "Ok"
       IN
       /\ IF res = "Ok"
          THEN autosaves' = [autosaves EXCEPT ![schedule_id].is_active = FALSE]
          ELSE UNCHANGED autosaves
       /\ last' = Call("cancel_autosave", user, schedule_id, 0, res, 0)
    /\ UNCHANGED <<planVars, now, configVars, ledgerVars, nextAutoSaveId, userAutoSaves,
                   scheduleLog>>

\* ----------------------------------------------------------------- goal
\* A faulty variant of the guard below, used to show that the properties of
\* the goal exits depend on it.
WithdrawnIgnored(goal_save) == FALSE

AlreadyWithdrawn(goal_save) == goal_save.is_withdrawn

\* A faulty variant of the ownership test below, which lets anyone deposit.
AnyoneDeposits(goal_save, user) == FALSE

NotGoalOwner(goal_save, user) == goal_save.owner # user

\* A faulty variant of the completion test below.
NeverReached(current_amount, target_amount) == FALSE

\* A faulty variant of the guard below, which lets an incomplete goal through.
CompletionIgnored(goal_save) == FALSE

NotCompleted(goal_save) == ~goal_save.is_completed

\* A faulty variant of the completion test below, which misses a goal that
\* is exactly at its target.
StrictlyAbove(current_amount, target_amount) == current_amount > target_amount

ReachesTarget(current_amount, target_amount) == current_amount >= target_amount

\* A faulty variant of the removal below, which keeps the list as it is.
ListKept(list, goal_id) == list

\* remove_goal_from_user: the list without every occurrence of goal_id
remove_goal_from_user(list, goal_id) ==
    SelectSeq(list, LAMBDA id : id # goal_id)

LogGoalExit(log, goal_id, kind, fee_amount, net_amount) ==
    [log EXCEPT ![goal_id] =
        [withdrawn |-> @.withdrawn + (IF kind = "withdraw" THEN 1 ELSE 0),
         broken |-> @.broken + (IF kind = "break" THEN 1 ELSE 0),
         paid |-> @.paid + 1,
         credited |-> @.credited + net_amount,
         fee_paid |-> @.fee_paid +
            (IF fee_amount > 0 /\ feeRecipient # NoAddress THEN 1 ELSE 0)]]

create_goal_save(user, target_amount, initial_deposit) ==
    /\ Idle
    /\ LET fee_amount == calculate_fee(initial_deposit, platformFee)
           net_initial_deposit == initial_deposit - fee_amount
           goal_id == nextGoalId
           routed == RouteFee(Ledger, fee_amount)
           res == IF RefusedWhilePaused THEN "ContractPaused"
                  ELSE IF target_amount <= 0 THEN "InvalidAmount"
                  ELSE IF initial_deposit < 0 THEN "InvalidAmount"
                  ELSE IF ~user_exists(user) THEN "UserNotFound"
                  ELSE routed.res
           goal_save == [id |-> goal_id, owner |-> user,
                         target_amount |-> target_amount,
                         current_amount |-> net_initial_deposit,
                         interest_rate |-> INTEREST_RATE,
                         start_time |-> now,
                         is_completed |->
                            ReachesTarget(net_initial_deposit, target_amount),
                         is_withdrawn |-> FALSE]
       IN
       IF res = "Ok"
       THEN /\ goals' = goals @@ (goal_id :> goal_save)
            /\ feeBalance' = routed.db.fees
            /\ userGoalSaves' = [userGoalSaves EXCEPT ![user] = Append(@, goal_id)]
            /\ nextGoalId' = nextGoalId + 1
            /\ goalLog' = goalLog @@
                 (goal_id :> [withdrawn |-> 0, broken |-> 0, paid |-> 0,
                              credited |-> 0, fee_paid |-> 0])
            /\ last' = Call("create_goal_save", user, goal_id, initial_deposit,
                            "Ok", goal_id)
       ELSE /\ UNCHANGED <<goals, feeBalance, userGoalSaves, nextGoalId, goalLog>>
            /\ last' = Call("create_goal_save", user, 0, initial_deposit, res, 0)
    /\ UNCHANGED <<now, configVars, users, flexiBalance, autosaveVars,
                   earlyBreakFee, lockVars, groupVars>>

\* create_goal_save while fewer than the modelled number of plans exist.
CreateGoalSave(user, target_amount, initial_deposit) ==
    /\ nextGoalId <= MaxGoals
    /\ create_goal_save(user, target_amount, initial_deposit)

DepositToGoalSave(user, goal_id, amount) ==
    /\ Idle
    /\ LET fee_amount == calculate_fee(amount, platformFee)
           net_amount == amount - fee_amount
           routed == RouteFee(Ledger, fee_amount)
           res == IF RefusedWhilePaused THEN "ContractPaused"
                  ELSE IF amount <= 0 THEN "InvalidAmount"
                  ELSE IF goal_id \notin DOMAIN goals THEN "PlanNotFound"
                  ELSE IF NotGoalOwner(goals[goal_id], user) THEN "Unauthorized"
                  ELSE IF goals[goal_id].is_completed THEN "PlanCompleted"
                  ELSE IF goals[goal_id].current_amount + net_amount > I128_MAX
                       THEN "Overflow"
                  ELSE routed.res
       IN
       /\ IF res = "Ok"
          THEN LET current_amount == goals[goal_id].current_amount + net_amount
               IN /\ goals' = [goals EXCEPT
                       ![goal_id].current_amount = current_amount,
                       ![goal_id].is_completed =
                          IF ReachesTarget(current_amount,
                                           goals[goal_id].target_amount)
                          THEN TRUE ELSE @]
                  /\ feeBalance' = routed.db.fees
          ELSE UNCHANGED <<goals, feeBalance>>
       /\ last' = Call("deposit_to_goal_save", user, goal_id, amount, res, 0)
    /\ UNCHANGED <<now, configVars, users, flexiBalance, autosaveVars,
                   earlyBreakFee, nextGoalId, userGoalSaves, goalLog,
                   lockVars, groupVars>>

\* The payout shared by the two exits: the net amount goes to the owner's
\* total_balance, the fee to the recipient.
GoalPayout(user, net_amount, fee_amount) ==
    IF users[user].total_balance + net_amount > I128_MAX
    THEN Out("Overflow", Ledger)
    ELSE RouteFee([Ledger EXCEPT !.users[user].total_balance = @ + net_amount],
                  fee_amount)

WithdrawCompletedGoalSave(user, goal_id) ==
    /\ Idle
    /\ LET pre == IF RefusedWhilePaused THEN "ContractPaused"
                  ELSE IF ~user_exists(user) THEN "UserNotFound"
                  ELSE IF goal_id \notin DOMAIN goals THEN "PlanNotFound"
                  ELSE IF goals[goal_id].owner # user THEN "Unauthorized"
                  ELSE IF NotCompleted(goals[goal_id]) THEN "TooEarly"
                  ELSE IF AlreadyWithdrawn(goals[goal_id]) THEN "PlanCompleted"
                  ELSE "Ok"
       IN
       IF pre # "Ok"
       THEN /\ last' = Call("withdraw_completed_goal_save", user, goal_id, 0,
                            pre, 0)
            /\ UNCHANGED <<goals, users, feeBalance, goalLog>>
       ELSE
         LET fee_amount == calculate_fee(goals[goal_id].current_amount,
                                         platformFee)
             net_amount == goals[goal_id].current_amount - fee_amount
             paid == GoalPayout(user, net_amount, fee_amount)
         IN
         IF paid.res # "Ok"
         THEN /\ last' = Call("withdraw_completed_goal_save", user, goal_id, 0,
                              paid.res, 0)
              /\ UNCHANGED <<goals, users, feeBalance, goalLog>>
         ELSE /\ goals' = [goals EXCEPT ![goal_id].is_withdrawn = TRUE]
              /\ users' = paid.db.users
              /\ feeBalance' = paid.db.fees
              /\ goalLog' = LogGoalExit(goalLog, goal_id, "withdraw", fee_amount,
                                       net_amount)
              /\ last' = Call("withdraw_completed_goal_save", user, goal_id, 0,
                              "Ok", net_amount)
    /\ UNCHANGED <<now, configVars, flexiBalance, autosaveVars, earlyBreakFee,
                   nextGoalId, userGoalSaves, lockVars, groupVars>>

\* A faulty variant of the early-break fee below, which rounds up.
RoundedUp(current_amount, fee_bps) ==
    (current_amount * fee_bps + BPS_DENOMINATOR - 1) \div BPS_DENOMINATOR

\* `if fee_bps == 0 { 0 } else { current_amount.checked_mul(fee_bps)? / 10_000 }`
\* for a product that fits
early_break_fee(current_amount, fee_bps) ==
    IF fee_bps = 0 THEN 0
    ELSE (current_amount * fee_bps) \div BPS_DENOMINATOR

BreakGoalSave(user, goal_id) ==
    /\ Idle
    /\ LET pre == IF RefusedWhilePaused THEN "ContractPaused"
                  ELSE IF ~user_exists(user) THEN "UserNotFound"
                  ELSE IF goal_id \notin DOMAIN goals THEN "PlanNotFound"
                  ELSE IF goals[goal_id].owner # user THEN "Unauthorized"
                  ELSE IF goals[goal_id].is_completed THEN "PlanCompleted"
                  ELSE IF AlreadyWithdrawn(goals[goal_id]) THEN "PlanCompleted"
                  ELSE IF earlyBreakFee > BPS_DENOMINATOR THEN "InvalidAmount"
                  ELSE IF earlyBreakFee # 0
                          /\ goals[goal_id].current_amount * earlyBreakFee
                               > I128_MAX
                       THEN "Overflow"
                  ELSE "Ok"
       IN
       IF pre # "Ok"
       THEN /\ last' = Call("break_goal_save", user, goal_id, 0, pre, 0)
            /\ UNCHANGED <<goals, users, feeBalance, goalLog, userGoalSaves>>
       ELSE
         LET fee_amount == early_break_fee(goals[goal_id].current_amount,
                                           earlyBreakFee)
             net_amount == goals[goal_id].current_amount - fee_amount
             paid == GoalPayout(user, net_amount, fee_amount)
         IN
         IF paid.res # "Ok"
         THEN /\ last' = Call("break_goal_save", user, goal_id, 0, paid.res, 0)
              /\ UNCHANGED <<goals, users, feeBalance, goalLog, userGoalSaves>>
         ELSE /\ goals' = [goals EXCEPT ![goal_id].is_withdrawn = TRUE]
              /\ users' = paid.db.users
              /\ feeBalance' = paid.db.fees
              /\ userGoalSaves' = [userGoalSaves EXCEPT
                    ![user] = remove_goal_from_user(@, goal_id)]
              /\ goalLog' = LogGoalExit(goalLog, goal_id, "break", fee_amount,
                                       net_amount)
              /\ last' = Call("break_goal_save", user, goal_id, 0, "Ok",
                              net_amount)
    /\ UNCHANGED <<now, configVars, flexiBalance, autosaveVars, earlyBreakFee,
                   nextGoalId, lockVars, groupVars>>

SetEarlyBreakFeeBps(bps) ==
    /\ Idle
    /\ IF bps > MAX_FEE_BPS
       THEN /\ UNCHANGED earlyBreakFee
            /\ last' = Call("set_early_break_fee_bps", ADMIN, 0, bps,
                            "InvalidFeeBps", 0)
       ELSE /\ earlyBreakFee' = bps
            /\ last' = Call("set_early_break_fee_bps", ADMIN, 0, bps, "Ok", 0)
    /\ UNCHANGED <<now, configVars, ledgerVars, autosaveVars, goals, nextGoalId,
                   userGoalSaves, goalLog, lockVars, groupVars>>

\* ----------------------------------------------------------------- lock
\* Faulty variants of check_matured_lock and of the withdrawn test of
\* withdraw_lock_save.
MaturedStrictlyAfter(lock_id) ==
    IF lock_id \in DOMAIN locks THEN now > locks[lock_id].maturity_time
    ELSE FALSE

MaturedUnlessWithdrawn(lock_id) ==
    IF lock_id \in DOMAIN locks
    THEN now >= locks[lock_id].maturity_time /\ ~locks[lock_id].is_withdrawn
    ELSE FALSE

LockWithdrawnIgnored(lock_save) == FALSE

LockWithdrawn(lock_save) == lock_save.is_withdrawn

\* A faulty variant of the update below, which also empties the lock.
MarkWithdrawnAndEmptied(lock_save) ==
    [lock_save EXCEPT !.is_withdrawn = TRUE, !.amount = 0]

\* `lock_save.is_withdrawn = true`
MarkWithdrawn(lock_save) == [lock_save EXCEPT !.is_withdrawn = TRUE]

check_matured_lock(lock_id) ==
    IF lock_id \in DOMAIN locks THEN now >= locks[lock_id].maturity_time
    ELSE FALSE

\* A faulty variant of the checked addition below, which never reports an
\* overflow.
MaturityNeverOverflows(current_time, duration) == FALSE

\* `current_time.checked_add(duration)` is None
MaturityOverflows(current_time, duration) == current_time + duration > U64_MAX

\* amount * (1 + rate * years), truncated toward zero
calculate_lock_save_yield(lock_save, current_time) ==
    LET duration_seconds == IF current_time >= lock_save.start_time
                            THEN current_time - lock_save.start_time ELSE 0
    IN lock_save.amount
         + ((lock_save.amount * lock_save.interest_rate * duration_seconds)
              \div BPS_DENOMINATOR) \div SECONDS_PER_YEAR

\* A faulty variant of the counter update below, which leaves the counter
\* where it is.
StuckNextLockId(current_id) == current_id

\* `env.storage().persistent().set(&DataKey::NextLockId, &(current_id + 1))`
increment_next_lock_id(current_id) == current_id + 1

create_lock_save(user, amount, duration) ==
    /\ Idle
    /\ LET res == IF amount <= 0 THEN "InvalidAmount"
                  ELSE IF duration = 0 THEN "InvalidTimestamp"
                  ELSE IF ~user_exists(user) THEN "UserNotFound"
                  ELSE IF MaturityOverflows(now, duration) THEN "Overflow"
                  ELSE "Ok"
           lock_id == nextLockId
           lock_save == [id |-> lock_id, owner |-> user, amount |-> amount,
                         interest_rate |-> INTEREST_RATE, start_time |-> now,
                         maturity_time |-> now + duration,
                         is_withdrawn |-> FALSE]
       IN
       IF res = "Ok"
       THEN /\ locks' = locks @@ (lock_id :> lock_save)
            /\ userLockSaves' = [userLockSaves EXCEPT ![user] = Append(@, lock_id)]
            /\ nextLockId' = increment_next_lock_id(nextLockId)
            /\ lockLog' = lockLog @@ (lock_id :> 0)
            /\ last' = Call("create_lock_save", user, lock_id, amount, "Ok",
                            lock_id)
       ELSE /\ UNCHANGED lockVars
            /\ last' = Call("create_lock_save", user, 0, amount, res, 0)
    /\ UNCHANGED <<now, configVars, ledgerVars, autosaveVars, goalVars,
                   groupVars>>

\* create_lock_save while fewer than the modelled number of plans exist.
CreateLockSave(user, amount, duration) ==
    /\ nextLockId <= MaxLocks
    /\ create_lock_save(user, amount, duration)

WithdrawLockSave(user, lock_id) ==
    /\ Idle
    /\ LET res == IF lock_id \notin DOMAIN locks THEN "PlanNotFound"
                  ELSE IF locks[lock_id].owner # user THEN "Unauthorized"
                  ELSE IF LockWithdrawn(locks[lock_id]) THEN "PlanCompleted"
                  ELSE IF ~check_matured_lock(lock_id) THEN "TooEarly"
                  ELSE "Ok"
       IN
       IF res = "Ok"
       THEN /\ locks' = [locks EXCEPT ![lock_id] = MarkWithdrawn(@)]
            /\ lockLog' = [lockLog EXCEPT ![lock_id] = @ + 1]
            /\ last' = Call("withdraw_lock_save", user, lock_id, 0, "Ok",
                            calculate_lock_save_yield(locks[lock_id], now))
       ELSE /\ UNCHANGED <<locks, lockLog>>
            /\ last' = Call("withdraw_lock_save", user, lock_id, 0, res, 0)
    /\ UNCHANGED <<now, configVars, ledgerVars, autosaveVars, goalVars,
                   nextLockId, userLockSaves, groupVars>>

\* The read-only entry point: its answer is the one element of `results`.
CheckMaturedLock(lock_id) ==
    /\ Idle
    /\ last' = [Call("check_matured_lock", NoAddress, lock_id, 0, "Ok", 0)
                  EXCEPT !.results = <<check_matured_lock(lock_id)>>]
    /\ UNCHANGED <<planVars, now, configVars, ledgerVars, autosaveVars>>

\* ---------------------------------------------------------------- group
\* `texts_ok` stands for title, description and category all being non-empty.
\* `wrap` is the build's treatment of an overflowing `+` on an i128, as for
\* the schedules.  The SavingsPlan mirror records that the group operations
\* also write are not modelled.
create_group_save(creator, target_amount, contribution_type, contribution_amount, is_public, start_time, end_time, texts_ok) ==
    /\ Idle
    /\ LET res == IF target_amount <= 0 THEN "InvalidAmount"
                  ELSE IF contribution_amount <= 0 THEN "InvalidAmount"
                  ELSE IF start_time >= end_time THEN "InvalidTimestamp"
                  ELSE IF contribution_type > 2 THEN "InvalidGroupConfig"
                  ELSE IF ~texts_ok THEN "InvalidGroupConfig"
                  ELSE "Ok"
           group_id == nextGroupId
           new_group == [id |-> group_id, creator |-> creator,
                         target_amount |-> target_amount,
                         current_amount |-> 0,
                         contribution_type |-> contribution_type,
                         contribution_amount |-> contribution_amount,
                         is_public |-> is_public, member_count |-> 1,
                         start_time |-> start_time, end_time |-> end_time,
                         is_completed |-> FALSE]
       IN
       IF res = "Ok"
       THEN /\ groups' = groups @@ (group_id :> new_group)
            /\ nextGroupId' = nextGroupId + 1
            /\ groupMembers' = groupMembers @@ (group_id :> <<creator>>)
            /\ groupContribution' =
                 groupContribution @@ (<<group_id, creator>> :> 0)
            /\ userGroupSaves' =
                 [userGroupSaves EXCEPT ![creator] = Append(@, group_id)]
            /\ groupLog' = groupLog @@ (<<group_id, creator>> :> 0)
            /\ last' = Call("create_group_save", creator, group_id,
                            target_amount, "Ok", group_id)
       ELSE /\ UNCHANGED groupVars
            /\ last' = Call("create_group_save", creator, 0, target_amount,
                            res, 0)
    /\ UNCHANGED <<now, configVars, ledgerVars, autosaveVars, goalVars,
                   lockVars>>

\* create_group_save while fewer than the modelled number of plans exist.
CreateGroupSave(creator, target_amount, contribution_type, contribution_amount, is_public, start_time, end_time, texts_ok) ==
    /\ nextGroupId <= MaxGroups
    /\ create_group_save(creator, target_amount, contribution_type, contribution_amount, is_public, start_time, end_time, texts_ok)

\* A faulty variant of the membership test below, which takes everyone for a
\* member.
EveryoneMember(group_id, user) == TRUE

IsMember(group_id, user) ==
    /\ group_id \in DOMAIN groupMembers
    /\ \E i \in DOMAIN groupMembers[group_id] : groupMembers[group_id][i] = user

\* A faulty variant of the test below, which lets anyone into a private
\* group.
PrivateIgnored(group) == FALSE

\* `!group.is_public`
NotPublic(group) == ~group.is_public

JoinGroupSave(user, group_id) ==
    /\ Idle
    /\ LET res == IF ~user_exists(user) THEN "UserNotFound"
                  ELSE IF group_id \notin DOMAIN groups THEN "PlanNotFound"
                  ELSE IF NotPublic(groups[group_id]) THEN "InvalidGroupConfig"
                  ELSE IF IsMember(group_id, user) THEN "InvalidGroupConfig"
                  ELSE "Ok"
       IN
       /\ IF res = "Ok"
          THEN /\ groupMembers' =
                    [groupMembers EXCEPT ![group_id] = Append(@, user)]
               /\ groups' = [groups EXCEPT ![group_id].member_count = @ + 1]
               /\ userGroupSaves' =
                    [userGroupSaves EXCEPT ![user] = Append(@, group_id)]
               /\ groupContribution' =
                    [k \in DOMAIN groupContribution \cup {<<group_id, user>>}
                       |-> IF k = <<group_id, user>> THEN 0
                           ELSE groupContribution[k]]
               /\ groupLog' = groupLog @@ (<<group_id, user>> :> 0)
          ELSE UNCHANGED <<groupMembers, groups, userGroupSaves,
                           groupContribution, groupLog>>
       /\ last' = Call("join_group_save", user, group_id, 0, res, 0)
    /\ UNCHANGED <<now, configVars, ledgerVars, autosaveVars, goalVars,
                   lockVars, nextGroupId>>

\* an i128 sum as the build computes it when it wraps around
WrapI128(x) ==
    IF x > I128_MAX THEN x - 2 * (I128_MAX + 1) ELSE x

\* A faulty variant of the completion flag below, which follows the amount
\* instead of being set once.
Recomputed(is_completed, current_amount, target_amount) ==
    current_amount >= target_amount

\* `if current_amount >= target_amount { is_completed = true }`
SetIfReached(is_completed, current_amount, target_amount) ==
    IF current_amount >= target_amount THEN TRUE ELSE is_completed

ContributeToGroupSave(user, group_id, amount, wrap) ==
    /\ Idle
    /\ LET key == <<group_id, user>>
           current_contribution ==
              IF key \in DOMAIN groupContribution THEN groupContribution[key]
              ELSE 0
           overflows ==
              \/ current_contribution + amount > I128_MAX
              \/ groups[group_id].current_amount + amount > I128_MAX
           res == IF amount <= 0 THEN "InvalidAmount"
                  ELSE IF group_id \notin DOMAIN groups THEN "PlanNotFound"
                  ELSE IF ~IsMember(group_id, user) THEN "NotGroupMember"
                  ELSE IF overflows /\ ~wrap THEN "Panic"
                  ELSE "Ok"
       IN
       /\ IF res = "Ok"
          THEN LET current_amount ==
                      WrapI128(groups[group_id].current_amount + amount)
               IN /\ groupContribution' =
                       [k \in DOMAIN groupContribution \cup {key} |->
                           IF k = key
                           THEN WrapI128(current_contribution + amount)
                           ELSE groupContribution[k]]
                  /\ groups' = [groups EXCEPT
                       ![group_id].current_amount = current_amount,
                       ![group_id].is_completed =
                          SetIfReached(@, current_amount,
                                       groups[group_id].target_amount)]
                  /\ groupLog' = [groupLog EXCEPT ![key] = @ + amount]
          ELSE UNCHANGED <<groups, groupContribution, groupLog>>
       /\ last' = Call("contribute_to_group_save", user, group_id, amount,
                       res, 0)
    /\ UNCHANGED <<now, configVars, ledgerVars, autosaveVars, goalVars,
                   lockVars, nextGroupId, groupMembers, userGroupSaves>>

\* --------------------------------------------------------- environment
\* The ledger clock moves forward.
Tick ==
    /\ Idle
    /\ now < MaxNow
    /\ now' = now + 1
    /\ UNCHANGED <<planVars, configVars, ledgerVars, autosaveVars, last>>

SetProtocolFeeBps(bps) ==
    /\ Idle
    /\ IF bps > MAX_FEE_BPS
       THEN /\ UNCHANGED platformFee
            /\ last' = Call("set_protocol_fee_bps", ADMIN, 0, bps, "InvalidFeeBps", 0)
       ELSE /\ platformFee' = bps
            /\ last' = Call("set_protocol_fee_bps", ADMIN, 0, bps, "Ok", 0)
    /\ UNCHANGED <<planVars, now, paused, feeRecipient, config, ledgerVars,
                   autosaveVars>>

SetFeeRecipient(recipient) ==
    /\ Idle
    /\ feeRecipient' = recipient
    /\ last' = Call("set_fee_recipient", ADMIN, 0, 0, "Ok", 0)
    /\ UNCHANGED <<planVars, now, paused, platformFee, config, ledgerVars,
                   autosaveVars>>

require_admin(caller) == caller = ADMIN

PauseContract(admin) ==
    /\ Idle
    /\ IF require_admin(admin)
       THEN /\ paused' = TRUE
            /\ last' = Call("pause_contract", admin, 0, 0, "Ok", 0)
       ELSE /\ UNCHANGED paused
            /\ last' = Call("pause_contract", admin, 0, 0, "Unauthorized", 0)
    /\ UNCHANGED <<planVars, now, platformFee, feeRecipient, config, ledgerVars,
                   autosaveVars>>

UnpauseContract(admin) ==
    /\ Idle
    /\ IF require_admin(admin)
       THEN /\ paused' = FALSE
            /\ last' = Call("unpause_contract", admin, 0, 0, "Ok", 0)
       ELSE /\ UNCHANGED paused
            /\ last' = Call("unpause_contract", admin, 0, 0, "Unauthorized", 0)
    /\ UNCHANGED <<planVars, now, platformFee, feeRecipient, config, ledgerVars,
                   autosaveVars>>

\* A faulty variant of the fee bound below, which accepts every fee.
AnyFeeAccepted(fee_bps) == FALSE

\* `protocol_fee_bps > MAX_FEE_BPS`
FeeTooHigh(fee_bps) == fee_bps > MAX_FEE_BPS

\* The three instance-storage keys of the configuration are one record:
\* ConfigInitialized, Treasury (absent: NoAddress) and ProtocolFeeBps
\* (absent: read as 0).
InitializeConfig(admin, treasury, protocol_fee_bps) ==
    /\ Idle
    /\ LET res == IF config.initialized THEN "ConfigAlreadyInitialized"
                  ELSE IF ~require_admin(admin) THEN "Unauthorized"
                  ELSE IF FeeTooHigh(protocol_fee_bps) THEN "InvalidFeeBps"
                  ELSE "Ok"
       IN
       /\ config' = IF res = "Ok"
                    THEN [initialized |-> TRUE, treasury |-> treasury,
                          protocol_fee_bps |-> protocol_fee_bps]
                    ELSE config
       /\ last' = Call("initialize_config", admin, 0, protocol_fee_bps, res, 0)
    /\ UNCHANGED <<planVars, now, paused, platformFee, feeRecipient,
                   ledgerVars, autosaveVars>>

SetTreasury(admin, new_treasury) ==
    /\ Idle
    /\ LET res == IF ~require_admin(admin) THEN "Unauthorized" ELSE "Ok" IN
       /\ config' = IF res = "Ok"
                    THEN [config EXCEPT !.treasury = new_treasury]
                    ELSE config
       /\ last' = Call("set_treasury", admin, 0, 0, res, 0)
    /\ UNCHANGED <<planVars, now, paused, platformFee, feeRecipient,
                   ledgerVars, autosaveVars>>

SetProtocolFee(admin, new_fee_bps) ==
    /\ Idle
    /\ LET res == IF ~require_admin(admin) THEN "Unauthorized"
                  ELSE IF FeeTooHigh(new_fee_bps) THEN "InvalidFeeBps"
                  ELSE "Ok"
       IN
       /\ config' = IF res = "Ok"
                    THEN [config EXCEPT !.protocol_fee_bps = new_fee_bps]
                    ELSE config
       /\ last' = Call("set_protocol_fee", admin, 0, new_fee_bps, res, 0)
    /\ UNCHANGED <<planVars, now, paused, platformFee, feeRecipient,
                   ledgerVars, autosaveVars>>

\* The result of the invocation is handed back to the caller.
Return ==
    /\ ~Idle
    /\ last' = NoCall
    /\ UNCHANGED <<planVars, now, configVars, ledgerVars, autosaveVars>>

\* Which treatments of an overflowing u64 addition the build may give, for a
\* call that advances the schedules `ids` at most n times each.  When no
\* addition can overflow the two builds behave alike and one is enough.
WrapChoices(ids, n) ==
    IF \E id \in ids :
          /\ id \in DOMAIN autosaves
          /\ autosaves[id].next_execution_time
                + n * autosaves[id].interval_seconds > U64_MAX
    THEN BOOLEAN ELSE {FALSE}

\* ------------------------------------------------------- specifications
Init ==
    /\ now = 0
    /\ paused = FALSE
    /\ platformFee = 0
    /\ feeRecipient = NoAddress
    /\ config = [initialized |-> FALSE, treasury |-> NoAddress,
                 protocol_fee_bps |-> 0]
    /\ users = EmptyMap
    /\ flexiBalance = [a \in Users |-> 0]
    /\ feeBalance = [a \in {TREASURY} |-> 0]
    /\ autosaves = EmptyMap
    /\ nextAutoSaveId = 1
    /\ userAutoSaves = [a \in Users |-> <<>>]
    /\ scheduleLog = EmptyMap
    /\ earlyBreakFee = 0
    /\ goals = EmptyMap
    /\ nextGoalId = 1
    /\ userGoalSaves = [a \in Users |-> <<>>]
    /\ goalLog = EmptyMap
    /\ locks = EmptyMap
    /\ nextLockId = 1
    /\ userLockSaves = [a \in Users |-> <<>>]
    /\ lockLog = EmptyMap
    /\ groups = EmptyMap
    /\ nextGroupId = 1
    /\ groupMembers = EmptyMap
    /\ groupContribution = EmptyMap
    /\ userGroupSaves = [a \in Users |-> <<>>]
    /\ groupLog = EmptyMap
    /\ last = NoCall

\* The recurring-deposit scheduler and what drives it: one registered owner
\* (u2 stays a stranger), the clock and the pause switch.
NextAutoSave ==
    \/ InitializeUser("u1")
    \/ \E u \in Users, a \in Amounts, i \in Intervals, t \in Times :
          CreateAutosave(u, a, i, t)
    \/ \E id \in ScheduleIds : \E w \in WrapChoices({id}, 1) :
          ExecuteAutosave(id, w)
    \/ \E ids \in BatchInputs :
          \E w \in WrapChoices({ids[i] : i \in DOMAIN ids}, Len(ids)) :
             ExecuteDueAutosaves(ids, w)
    \/ \E u \in Users, id \in ScheduleIds : CancelAutosave(u, id)
    \/ Tick
    \/ PauseContract(ADMIN)
    \/ UnpauseContract(ADMIN)
    \/ Return

SpecAutoSave == Init /\ [][NextAutoSave]_vars

\* The Flexi account under every fee configuration: one registered owner,
\* a stranger, the fee rate, the fee recipient and the pause switch.
NextFlexi ==
    \/ InitializeUser("u1")
    \/ \E u \in Users, a \in Amounts : FlexiDeposit(u, a)
    \/ \E u \in Users, a \in Amounts : FlexiWithdraw(u, a)
    \/ \E bps \in FeeBpsInputs : SetProtocolFeeBps(bps)
    \/ \E r \in {TREASURY, NoAddress} : SetFeeRecipient(r)
    \/ PauseContract(ADMIN)
    \/ UnpauseContract(ADMIN)
    \/ Return

SpecFlexi == Init /\ [][NextFlexi]_vars

\* The plans with a lifecycle: goals, locks, groups and schedules, under
\* changing fee rates and a moving clock.  The exploration holds the plans of
\* one product at a time: a plan of one product is created only while no plan
\* of another product exists (the products keep their plans under disjoint
\* storage keys and share only the users, the fee sink and the clock), and
\* the clock moves only while no goal or group exists (their operations read
\* it only to stamp a new plan).
NoGoals == nextGoalId = 1
NoLocks == nextLockId = 1
NoGroups == nextGroupId = 1
NoSchedules == nextAutoSaveId = 1
GoalIds == 1..(MaxGoals + 1)
LockIds == 1..(MaxLocks + 1)
GroupIds == 1..(MaxGroups + 1)
GoalTargets == {0, SmallAmount}
GoalDeposits == {0, SmallAmount}
LockDurations == {0, 1, U64_MAX}

NextGoal ==
    \/ \E u \in Users, t \in GoalTargets, a \in GoalDeposits :
          CreateGoalSave(u, t, a)
    \/ \E u \in Users, id \in GoalIds, a \in GoalDeposits :
          DepositToGoalSave(u, id, a)
    \/ \E u \in Users, id \in GoalIds : WithdrawCompletedGoalSave(u, id)
    \/ \E u \in Users, id \in GoalIds : BreakGoalSave(u, id)

NextLock ==
    \/ \E u \in Users, a \in {0, SmallAmount}, d \in LockDurations :
          CreateLockSave(u, a, d)
    \/ \E u \in Users, id \in LockIds : WithdrawLockSave(u, id)

NextGroup ==
    \/ \E u \in Users, t \in {0, 2 * BigAmount}, ct \in {0, 3},
          pub \in BOOLEAN, e \in {0, U64_MAX}, ok \in BOOLEAN :
          CreateGroupSave(u, t, ct, BigAmount, pub, 0, e, ok)
    \/ \E u \in Users, id \in GroupIds : JoinGroupSave(u, id)
    \/ \E u \in Users, id \in GroupIds, a \in {0, BigAmount},
          w \in BOOLEAN :
          /\ id \in DOMAIN groups => groups[id].current_amount >= 0
          /\ ContributeToGroupSave(u, id, a, w)

NextSchedule ==
    \/ \E u \in Users, i \in {1, U64_MAX}, t \in {0, 1} :
          CreateAutosave(u, BigAmount, i, t)
    \/ \E id \in ScheduleIds : \E w \in WrapChoices({id}, 1) :
          ExecuteAutosave(id, w)
    \/ \E u \in Users, id \in ScheduleIds : CancelAutosave(u, id)

NextLifecycle ==
    \/ InitializeUser("u1")
    \/ \E bps \in {0, 3334} : SetProtocolFeeBps(bps)
    \/ \E bps \in {0, 3334} : SetEarlyBreakFeeBps(bps)
    \/ SetFeeRecipient(TREASURY)
    \/ (NoLocks /\ NoGroups /\ NoSchedules /\ NextGoal)
    \/ (NoGoals /\ NoGroups /\ NoSchedules /\ NextLock)
    \/ (NoGoals /\ NoLocks /\ NoSchedules /\ NextGroup)
    \/ (NoGoals /\ NoLocks /\ NoGroups /\ NextSchedule)
    \/ (NoGoals /\ NoGroups /\ Tick)
    \/ Return

SpecLifecycle == Init /\ [][NextLifecycle]_vars

\* The two fee computations on their own, for every rate the setters accept
\* and a range of amounts: calculate_fee at the protocol rate and the fee of
\* break_goal_save at the early-break rate.
FeeAmounts == (0..MaxFeeAmount) \cup {50, 3333, BigAmount}
FeeRates == {0, 1, 100, 125, 3334, MAX_FEE_BPS - 1, MAX_FEE_BPS}

ApplyFee(amount) ==
    /\ Idle
    /\ last' = Call("calculate_fee", NoAddress, platformFee, amount, "Ok",
                    calculate_fee(amount, platformFee))
    /\ UNCHANGED <<planVars, now, configVars, ledgerVars, autosaveVars>>

ApplyBreakFee(amount) ==
    /\ Idle
    /\ last' = Call("early_break_fee", NoAddress, earlyBreakFee, amount, "Ok",
                    early_break_fee(amount, earlyBreakFee))
    /\ UNCHANGED <<planVars, now, configVars, ledgerVars, autosaveVars>>

NextFee ==
    \/ \E bps \in FeeRates : SetProtocolFeeBps(bps)
    \/ \E bps \in FeeRates : SetEarlyBreakFeeBps(bps)
    \/ \E a \in FeeAmounts : ApplyFee(a)
    \/ \E a \in FeeAmounts : ApplyBreakFee(a)
    \/ Return

SpecFee == Init /\ [][NextFee]_vars

\* One owner's money across the products that move it: a goal paid out into
\* total_balance, a schedule that deposits into the Flexi account through the
\* batch executor, and Flexi withdrawals.
LedgerAmount == 3 * (I128_MAX \div 10)

NextLedger ==
    \/ InitializeUser("u1")
    \/ CreateGoalSave("u1", 2 * BigAmount, BigAmount)
    \/ \E id \in GoalIds : DepositToGoalSave("u1", id, BigAmount)
    \/ \E id \in GoalIds : WithdrawCompletedGoalSave("u1", id)
    \/ CreateAutosave("u1", LedgerAmount, 1, 0)
    \/ \E ids \in BatchInputs :
          \E w \in WrapChoices({ids[i] : i \in DOMAIN ids}, Len(ids)) :
             ExecuteDueAutosaves(ids, w)
    \/ \E a \in {LedgerAmount, BigAmount} : FlexiWithdraw("u1", a)
    \/ Return

SpecLedger == Init /\ [][NextLedger]_vars

\* The goal plans on their own, with everything their operations read: the
\* owner u1 and a second user who owns no goal, the protocol fee rate, a different early-break rate, the
\* fee recipient and the pause switch.
EarlyBreakRates == {0, 3 * (MAX_FEE_BPS \div 5)}

NextGoalPlans ==
    \/ \E u \in Users : InitializeUser(u)
    \/ \E bps \in {0, 3334} : SetProtocolFeeBps(bps)
    \/ \E bps \in EarlyBreakRates : SetEarlyBreakFeeBps(bps)
    \/ SetFeeRecipient(TREASURY)
    \/ \E t \in GoalTargets, a \in {-1} \cup GoalDeposits :
          CreateGoalSave("u1", t, a)
    \/ \E u \in Users, id \in GoalIds, a \in GoalDeposits :
          DepositToGoalSave(u, id, a)
    \/ \E u \in Users, id \in GoalIds : WithdrawCompletedGoalSave(u, id)
    \/ \E u \in Users, id \in GoalIds : BreakGoalSave(u, id)
    \/ PauseContract(ADMIN)
    \/ UnpauseContract(ADMIN)
    \/ Return

SpecGoal == Init /\ [][NextGoalPlans]_vars

\* The ledger timestamp is moved forward to t.
SetLedgerTime(t) ==
    /\ Idle
    /\ t > now
    /\ now' = t
    /\ UNCHANGED <<planVars, configVars, ledgerVars, autosaveVars, last>>

\* The locks around their maturity: a lock of 1000 for 100 seconds, created
\* at any of the times below, asked for its maturity and withdrawn by its
\* owner or a stranger at any later one.
MaturityTimes == {1000, 1099, 1100, 1199, 1200}
MaturityDurations == {0, 100, U64_MAX}

NextMaturity ==
    \/ InitializeUser("u1")
    \/ \E u \in Users, a \in {0, 1000}, d \in MaturityDurations :
          CreateLockSave(u, a, d)
    \/ \E u \in Users, id \in LockIds : WithdrawLockSave(u, id)
    \/ \E id \in LockIds : CheckMaturedLock(id)
    \/ \E t \in MaturityTimes : SetLedgerTime(t)
    \/ Return

SpecMaturity == Init /\ [][NextMaturity]_vars

\* The group plans on their own: two users who register, create, join and
\* contribute in any order, under either protocol fee rate.  The amounts are
\* those of a group of target 1000 filled by 300, 200 and 500, and amounts of
\* the order of I128_MAX; the small amounts are contributed to a group of
\* target 1000 while it holds less than 1000, the large ones to any group
\* while it holds no negative amount.
\* One group exists at a time.
GroupTargets == {0, 1000, 2 * BigAmount}
GroupAmounts == {0, 200, 300, 500, BigAmount}

\* Which treatments of an overflowing i128 addition the build may give to a
\* contribution: both when one of its two additions overflows, one otherwise.
GroupWrapChoices(user, group_id, amount) ==
    IF /\ group_id \in DOMAIN groups
       /\ \/ groups[group_id].current_amount + amount > I128_MAX
          \/ /\ <<group_id, user>> \in DOMAIN groupContribution
             /\ groupContribution[<<group_id, user>>] + amount > I128_MAX
    THEN BOOLEAN ELSE {FALSE}

NextGroupPlans ==
    \/ \E u \in Users : InitializeUser(u)
    \/ \E bps \in {0, 3334} : SetProtocolFeeBps(bps)
    \/ SetFeeRecipient(TREASURY)
    \/ \E u \in Users, t \in GroupTargets, pub \in BOOLEAN :
          NoGroups /\ CreateGroupSave(u, t, 1, 1, pub, 0, 1, TRUE)
    \/ \E u \in Users, id \in GroupIds : JoinGroupSave(u, id)
    \/ \E u \in Users, id \in GroupIds, a \in GroupAmounts :
          \E w \in GroupWrapChoices(u, id, a) :
             /\ id \in DOMAIN groups =>
                   /\ groups[id].current_amount >= 0
                   /\ a < BigAmount =>
                         /\ groups[id].target_amount = 1000
                         /\ groups[id].current_amount < 1000
             /\ ContributeToGroupSave(u, id, a, w)
    \/ Return

SpecGroup == Init /\ [][NextGroupPlans]_vars

\* Registration and the operations that need it: u1 registers, u2 never does,
\* and both deposit and open a goal, a lock and a schedule, with valid and
\* invalid arguments, under either fee rate, paused or not.  Deposits stop at
\* a Flexi balance of two everyday amounts.
AccountAmounts == {0, SmallAmount}

NextAccounts ==
    \/ InitializeUser("u1")
    \/ \E bps \in {0, 3334} : SetProtocolFeeBps(bps)
    \/ SetFeeRecipient(TREASURY)
    \/ \E u \in Users, a \in AccountAmounts :
          flexiBalance[u] < 2 * SmallAmount /\ FlexiDeposit(u, a)
    \/ \E u \in Users, t \in AccountAmounts, a \in AccountAmounts :
          CreateGoalSave(u, t, a)
    \/ \E u \in Users, a \in AccountAmounts, d \in {0, 1} :
          CreateLockSave(u, a, d)
    \/ \E u \in Users, a \in AccountAmounts, i \in {0, 1} :
          CreateAutosave(u, a, i, 0)
    \/ PauseContract(ADMIN)
    \/ UnpauseContract(ADMIN)
    \/ Return

SpecAccounts == Init /\ [][NextAccounts]_vars

\* The pause switch over the six operations that test it: one registered
\* owner and a stranger use the Flexi account and the goals, with valid and
\* invalid arguments, while the administrator pauses and unpauses.  No fee is
\* configured.
NextPause ==
    \/ InitializeUser("u1")
    \/ \E u \in Users, a \in Amounts : FlexiDeposit(u, a)
    \/ \E u \in Users, a \in Amounts : FlexiWithdraw(u, a)
    \/ \E u \in Users, t \in GoalTargets, a \in {-1} \cup GoalDeposits :
          CreateGoalSave(u, t, a)
    \/ \E u \in Users, id \in GoalIds, a \in GoalDeposits :
          DepositToGoalSave(u, id, a)
    \/ \E u \in Users, id \in GoalIds : WithdrawCompletedGoalSave(u, id)
    \/ \E u \in Users, id \in GoalIds : BreakGoalSave(u, id)
    \/ PauseContract(ADMIN)
    \/ UnpauseContract(ADMIN)
    \/ Return

SpecPause == Init /\ [][NextPause]_vars

\* The id counters: both users register and create plans of the four
\* products in any order, with valid and with refused arguments, up to MaxIds
\* plans of each product.
IdAmounts == {0, SmallAmount}

NextIds ==
    \/ \E u \in Users : InitializeUser(u)
    \/ \E u \in Users, a \in IdAmounts :
          nextAutoSaveId <= MaxIds /\ create_autosave(u, a, 1, 0)
    \/ \E u \in Users, t \in IdAmounts :
          nextGoalId <= MaxIds /\ create_goal_save(u, t, 0)
    \/ \E u \in Users, a \in IdAmounts :
          nextLockId <= MaxIds /\ create_lock_save(u, a, 1)
    \/ \E u \in Users, t \in IdAmounts :
          nextGroupId <= MaxIds /\ create_group_save(u, t, 1, 1, TRUE, 0, 1, TRUE)
    \/ Return

SpecIds == Init /\ [][NextIds]_vars

\* The global configuration: the administrator and another caller initialize
\* it, change the fee and the treasury, and pause and unpause the contract.
ConfigFees == {0, 100, MAX_FEE_BPS, MAX_FEE_BPS + 1}
ConfigCallers == {ADMIN, "u1"}

NextConfig ==
    \/ \E a \in ConfigCallers, t \in {TREASURY, "u2"}, f \in ConfigFees :
          InitializeConfig(a, t, f)
    \/ \E a \in ConfigCallers, t \in {TREASURY, "u2"} : SetTreasury(a, t)
    \/ \E a \in ConfigCallers, f \in ConfigFees : SetProtocolFee(a, f)
    \/ \E a \in ConfigCallers : PauseContract(a)
    \/ \E a \in ConfigCallers : UnpauseContract(a)
    \/ Return

SpecConfig == Init /\ [][NextConfig]_vars

\* The fee-bearing operations of one owner: a first Flexi deposit and the
\* life of a goal, at both protocol fee rates and early-break rates, with and
\* without a fee recipient.
NextValue ==
    \/ InitializeUser("u1")
    \/ \E bps \in {0, 3334} : SetProtocolFeeBps(bps)
    \/ \E bps \in EarlyBreakRates : SetEarlyBreakFeeBps(bps)
    \/ SetFeeRecipient(TREASURY)
    \/ flexiBalance["u1"] = 0 /\ FlexiDeposit("u1", SmallAmount)
    \/ \E a \in GoalDeposits : CreateGoalSave("u1", SmallAmount, a)
    \/ \E id \in GoalIds : DepositToGoalSave("u1", id, SmallAmount)
    \/ \E id \in GoalIds : WithdrawCompletedGoalSave("u1", id)
    \/ \E id \in GoalIds : BreakGoalSave("u1", id)
    \/ Return

SpecValue == Init /\ [][NextValue]_vars

\* ------------------------------------------------------------- properties
\* C1: execute_due_autosaves completes without error for every list of ids
\* and returns one result per input id (that the i-th result is the outcome of
\* the i-th id is the content of C2_BatchEqualsOneByOne).
C1_BatchAlwaysCompletes ==
    last.op = "execute_due_autosaves" =>
        /\ last.res = "Ok"
        /\ Len(last.results) = Len(last.ids)

\* The reference of C2: execute_autosave invoked once per id, in order, at the
\* same ledger time, each invocation atomic, failures ignored.
RECURSIVE one_by_one(_, _, _, _)
one_by_one(st, schedule_ids, i, wrap) ==
    IF i > Len(schedule_ids) THEN st
    ELSE
      LET out == execute_autosave(st.db, st.scheds, schedule_ids[i], wrap) IN
      IF out.res = "Ok"
      THEN one_by_one([db |-> out.db, scheds |-> out.scheds,
                       results |-> Append(st.results, TRUE)],
                      schedule_ids, i + 1, wrap)
      ELSE one_by_one([st EXCEPT !.results = Append(@, FALSE)],
                      schedule_ids, i + 1, wrap)

\* C2: the batch returns true at position i exactly when execute_autosave on
\* the i-th id would succeed when the ids are processed one at a time in
\* order, and it leaves the state those one-by-one invocations leave.
C2_BatchEqualsOneByOne ==
    [][\A ids \in BatchInputs : \A w \in BOOLEAN :
          ExecuteDueAutosaves(ids, w) =>
             LET ref == one_by_one([db |-> Ledger, scheds |-> autosaves,
                                    results |-> <<>>], ids, 1, w)
             IN /\ last'.results = ref.results
                /\ flexiBalance' = ref.db.flexi
                /\ users' = ref.db.users
                /\ feeBalance' = ref.db.fees
                /\ autosaves' = ref.scheds]_vars

\* C5: a schedule is Active or Cancelled; every successful execution happens
\* on an Active schedule, keeps it Active and moves next_execution_time
\* forward by interval_seconds; cancel makes it Cancelled; a Cancelled
\* schedule is never executed and never changes again.
C5_ScheduleLifecycle ==
    [][\A id \in DOMAIN autosaves :
          LET before == autosaves[id]
              after == autosaves'[id]
              ran == scheduleLog'[id].runs - scheduleLog[id].runs
          IN /\ ran > 0 =>
                   /\ before.is_active /\ after.is_active
                   /\ after.next_execution_time =
                        before.next_execution_time + ran * before.interval_seconds
             /\ (last'.op = "cancel_autosave" /\ last'.id = id
                   /\ last'.res = "Ok") => ~after.is_active
             /\ ~before.is_active => (after = before /\ ran = 0)]_vars

C7_FirstExecution ==
    [][\A id \in DOMAIN autosaves :
          LET schedule == autosaves[id]
              owner == schedule.user
              start_time == scheduleLog[id].start_time
              again == execute_autosave(
                          [flexi |-> flexiBalance', users |-> users',
                           fees |-> feeBalance'], autosaves', id, FALSE)
              batch == execute_due_autosaves(
                          [flexi |-> flexiBalance', users |-> users',
                           fees |-> feeBalance'], autosaves', scheduleLog',
                          <<id>>, FALSE)
          IN (/\ last'.op = "execute_autosave" /\ last'.id = id
              /\ schedule.is_active
              /\ scheduleLog[id].runs = 0
              /\ start_time = now
              /\ start_time + schedule.interval_seconds <= U64_MAX
              /\ platformFee = 0 /\ ~paused
              /\ flexiBalance[owner] + schedule.amount <= I128_MAX)
             => /\ last'.res = "Ok"
                /\ flexiBalance'[owner] = flexiBalance[owner] + schedule.amount
                /\ autosaves'[id].next_execution_time =
                     start_time + schedule.interval_seconds
                /\ again.res = "InvalidTimestamp"
                /\ batch.res = "Ok" /\ batch.results = <<FALSE>>]_vars

\* The first execution of a schedule that started at the current time has
\* just succeeded.
C7_Witness ==
    /\ last.op = "execute_autosave" /\ last.res = "Ok"
    /\ scheduleLog[last.id].runs = 1
    /\ scheduleLog[last.id].start_time = now
    /\ autosaves[last.id].next_execution_time =
         now + autosaves[last.id].interval_seconds
    /\ flexiBalance[autosaves[last.id].user] = autosaves[last.id].amount

\* C8: cancel_autosave by an address other than the owner fails with
\* Unauthorized and leaves the schedule as it was (active if it was active);
\* on an unknown id it fails with PlanNotFound; on success it changes nothing
\* but the schedule's is_active, which becomes false.
C8_Cancel ==
    [][last'.op = "cancel_autosave" =>
          LET id == last'.id
              user == last'.caller
          IN /\ id \notin DOMAIN autosaves =>
                   (last'.res = "PlanNotFound" /\ UNCHANGED autosaves)
             /\ (id \in DOMAIN autosaves /\ autosaves[id].user # user) =>
                   (last'.res = "Unauthorized" /\ UNCHANGED autosaves)
             /\ (id \in DOMAIN autosaves /\ autosaves[id].user = user) =>
                   /\ last'.res = "Ok"
                   /\ autosaves' =
                        [autosaves EXCEPT ![id].is_active = FALSE]
             /\ UNCHANGED <<now, configVars, ledgerVars, nextAutoSaveId,
                            userAutoSaves, planVars>>]_vars

\* A stranger's cancel was refused and the schedule is still active.
C8_Witness ==
    /\ last.op = "cancel_autosave"
    /\ last.res = "Unauthorized"
    /\ autosaves[last.id].user # last.caller
    /\ autosaves[last.id].is_active

\* What a successful flexi_deposit of `amount` by `user` does to the balances.
DepositEffect(user, amount) ==
    LET fee == calculate_fee(amount, platformFee) IN
    /\ flexiBalance'[user] = flexiBalance[user] + amount - fee
    /\ users'[user].total_balance = users[user].total_balance + amount - fee
    /\ (fee > 0 /\ feeRecipient # NoAddress) =>
          feeBalance'[feeRecipient] = feeBalance[feeRecipient] + fee

\* C9 as stated: a successful flexi_deposit of a > 0 with fee
\* f = floor(a * bps / 10000) raises the Flexi balance and total_balance by
\* a - f and, when f > 0 and a recipient is configured, the recipient's fee
\* balance by f; with amount <= 0 it fails with InvalidAmount and changes
\* nothing.
C9_DepositAsStated ==
    [][last'.op = "flexi_deposit" =>
          /\ last'.res = "Ok" =>
                (last'.amount > 0 /\ DepositEffect(last'.caller, last'.amount))
          /\ last'.amount <= 0 =>
                (last'.res = "InvalidAmount" /\ UNCHANGED ledgerVars)]_vars

\* C9, amended: as above, but amount <= 0 fails with InvalidAmount only on a
\* contract that is not paused; on a paused contract every flexi_deposit
\* fails with ContractPaused.  A failed call changes nothing.
C9_Deposit ==
    [][last'.op = "flexi_deposit" =>
          /\ last'.res = "Ok" =>
                (last'.amount > 0 /\ DepositEffect(last'.caller, last'.amount))
          /\ paused => last'.res = "ContractPaused"
          /\ (~paused /\ last'.amount <= 0) => last'.res = "InvalidAmount"
          /\ last'.res # "Ok" => UNCHANGED ledgerVars]_vars

\* A deposit has just succeeded with a fee that had to round down, credited
\* to the configured recipient.
C9_Witness ==
    /\ last.op = "flexi_deposit" /\ last.res = "Ok"
    /\ feeRecipient # NoAddress
    /\ calculate_fee(last.amount, platformFee) > 0
    /\ calculate_fee(last.amount, platformFee) * BPS_DENOMINATOR
         < last.amount * platformFee
    /\ feeBalance[feeRecipient] = calculate_fee(last.amount, platformFee)
    /\ flexiBalance[last.caller] =
         last.amount - calculate_fee(last.amount, platformFee)

\* What a successful flexi_withdraw of `amount` by `user` does to the balances.
WithdrawEffect(user, amount) ==
    LET fee == calculate_fee(amount, platformFee) IN
    /\ flexiBalance'[user] = flexiBalance[user] - amount
    /\ users'[user].total_balance = users[user].total_balance - amount
    /\ (fee > 0 /\ feeRecipient # NoAddress) =>
          feeBalance'[feeRecipient] = feeBalance[feeRecipient] + fee

\* C10 as stated: flexi_withdraw of a fails with InsufficientBalance whenever
\* the Flexi balance is below a, leaving the balances unchanged; on success
\* the Flexi balance and total_balance each drop by exactly a and the fee
\* floor(a * bps / 10000) is credited to the fee recipient.
C10_WithdrawAsStated ==
    [][last'.op = "flexi_withdraw" =>
          /\ flexiBalance[last'.caller] < last'.amount =>
                (last'.res = "InsufficientBalance" /\ UNCHANGED ledgerVars)
          /\ last'.res = "Ok" =>
                WithdrawEffect(last'.caller, last'.amount)]_vars

\* C10, amended: on a contract that is not paused, flexi_withdraw of a fails
\* with InsufficientBalance whenever the Flexi balance is below a; on a paused
\* contract it fails with ContractPaused instead.  A failed call changes
\* nothing; the success case is as stated.
C10_Withdraw ==
    [][last'.op = "flexi_withdraw" =>
          /\ paused => last'.res = "ContractPaused"
          /\ (~paused /\ flexiBalance[last'.caller] < last'.amount) =>
                last'.res = "InsufficientBalance"
          /\ last'.res # "Ok" => UNCHANGED ledgerVars
          /\ last'.res = "Ok" =>
                WithdrawEffect(last'.caller, last'.amount)]_vars

\* A withdrawal larger than the balance has just been refused on an unpaused
\* contract, after an earlier withdrawal had paid a fee.
C10_Witness ==
    /\ last.op = "flexi_withdraw" /\ last.res = "InsufficientBalance"
    /\ ~paused
    /\ 0 < flexiBalance[last.caller]
    /\ flexiBalance[last.caller] < last.amount
    /\ feeRecipient # NoAddress
    /\ feeBalance[feeRecipient] > calculate_fee(last.amount, platformFee)
    /\ calculate_fee(last.amount, platformFee) > 0

GoalExits == {"withdraw_completed_goal_save", "break_goal_save"}

\* C3: for each goal id at most one call among withdraw_completed_goal_save
\* and break_goal_save ever succeeds, and for each lock id at most one
\* withdraw_lock_save ever succeeds; the exits credit the owner's
\* total_balance and the fee sink for a given goal at most once: an exit
\* succeeds, or changes a balance, only on a goal that has not been exited
\* before, a refused exit changes no balance, and no other goal operation
\* credits total_balance.
C3_ExitsAtMostOnce ==
    /\ [](/\ \A id \in DOMAIN goalLog :
                /\ goalLog[id].withdrawn + goalLog[id].broken <= 1
                /\ goalLog[id].paid <= 1
                /\ goalLog[id].fee_paid <= 1
          /\ \A id \in DOMAIN lockLog : lockLog[id] <= 1)
    /\ [][/\ (/\ last'.op \in GoalExits
              /\ \/ last'.res = "Ok"
                 \/ users' # users
                 \/ feeBalance' # feeBalance) =>
               (/\ last'.res = "Ok"
                /\ last'.id \in DOMAIN goalLog
                /\ goalLog[last'.id].paid = 0
                /\ goalLog'[last'.id].paid = 1
                /\ ~goals[last'.id].is_withdrawn
                /\ goals'[last'.id].is_withdrawn)
          /\ (last'.op \in GoalExits /\ last'.res # "Ok") =>
               UNCHANGED <<goals, goalLog>>
          /\ last'.op \in {"create_goal_save", "deposit_to_goal_save"} =>
               (/\ UNCHANGED users
                /\ \A id \in DOMAIN goalLog : goalLog'[id] = goalLog[id])
          /\ (last'.op = "withdraw_lock_save" /\ last'.res = "Ok") =>
               (/\ lockLog[last'.id] = 0
                /\ lockLog'[last'.id] = 1
                /\ ~locks[last'.id].is_withdrawn
                /\ locks'[last'.id].is_withdrawn)
          /\ (last'.op = "withdraw_lock_save" /\ last'.res # "Ok") =>
               UNCHANGED <<locks, lockLog>>]_vars

\* A goal was broken, a later deposit completed it, and the withdrawal of the
\* completed goal was refused.
C3_Witness ==
    /\ last.op = "withdraw_completed_goal_save"
    /\ last.res = "PlanCompleted"
    /\ goalLog[last.id].broken = 1
    /\ goals[last.id].is_completed
    /\ goals[last.id].is_withdrawn

\* C4: once true, LockSave.is_withdrawn, GoalSave.is_completed,
\* GoalSave.is_withdrawn and GroupSave.is_completed stay true forever; once
\* false, AutoSave.is_active stays false forever.
C4_Latches ==
    [][/\ \A id \in DOMAIN locks : locks[id].is_withdrawn =>
             (id \in DOMAIN locks' /\ locks'[id].is_withdrawn)
       /\ \A id \in DOMAIN goals : goals[id].is_completed =>
             (id \in DOMAIN goals' /\ goals'[id].is_completed)
       /\ \A id \in DOMAIN goals : goals[id].is_withdrawn =>
             (id \in DOMAIN goals' /\ goals'[id].is_withdrawn)
       /\ \A id \in DOMAIN groups : groups[id].is_completed =>
             (id \in DOMAIN groups' /\ groups'[id].is_completed)
       /\ \A id \in DOMAIN autosaves : ~autosaves[id].is_active =>
             (id \in DOMAIN autosaves' /\ ~autosaves'[id].is_active)]_vars

\* A contribution to a completed group was accepted and left its amount
\* below the target (the sum wrapped around), and the group is still
\* completed.
C4_Witness ==
    /\ last.op = "contribute_to_group_save"
    /\ last.res = "Ok"
    /\ groups[last.id].is_completed
    /\ groups[last.id].current_amount < groups[last.id].target_amount

\* C11: for every amount >= 0 and rate in [0, 10000] the fee applied by
\* deposits and withdrawals (calculate_fee) and by goal breaks is
\* floor(amount * bps / 10000): 0 at rate 0, never above the amount, and
\* non-decreasing in the amount and in the rate; 3333 at 125 bps gives fee 41
\* and net 3292, 50 at 100 bps gives fee 0.
C11_Fee ==
    last.op \in {"calculate_fee", "early_break_fee"} =>
       LET amount == last.amount
           bps == last.id
           fee == last.ret
           f(a, b) == IF last.op = "calculate_fee" THEN calculate_fee(a, b)
                      ELSE early_break_fee(a, b)
       IN /\ fee * BPS_DENOMINATOR <= amount * bps
          /\ amount * bps < (fee + 1) * BPS_DENOMINATOR
          /\ bps = 0 => fee = 0
          /\ fee <= amount
          /\ \A a \in FeeAmounts, b \in FeeRates :
                (a >= amount /\ b >= bps) => f(a, b) >= fee
          /\ (amount = 3333 /\ bps = 125) => (fee = 41 /\ amount - fee = 3292)
          /\ (amount = 50 /\ bps = 100) => fee = 0

\* The early-break fee of 3333 at 125 bps has been computed, with a product
\* that is not a multiple of 10000.
C11_Witness ==
    /\ last.op = "early_break_fee"
    /\ last.amount = 3333
    /\ last.id = 125
    /\ last.ret = 41
    /\ (last.amount * last.id) % BPS_DENOMINATOR # 0

\* C12: in every reachable state no stored monetary amount is negative: every
\* Flexi balance, User.total_balance, goal current_amount, group
\* current_amount, per-member group contribution and fee-recipient balance
\* is >= 0.
C12_NonNegative ==
    /\ \A a \in DOMAIN flexiBalance : flexiBalance[a] >= 0
    /\ \A a \in DOMAIN users : users[a].total_balance >= 0
    /\ \A id \in DOMAIN goals : goals[id].current_amount >= 0
    /\ \A id \in DOMAIN groups : groups[id].current_amount >= 0
    /\ \A k \in DOMAIN groupContribution : groupContribution[k] >= 0
    /\ \A a \in DOMAIN feeBalance : feeBalance[a] >= 0

\* The owner calls an exit or a deposit on one of their goals.
OwnerCall(op) ==
    /\ last'.op = op
    /\ last'.id \in DOMAIN goals
    /\ goals[last'.id].owner = last'.caller
    /\ user_exists(last'.caller)

\* A refused goal operation leaves the goals, the balances and the owner's
\* goal list as they were.
GoalRefused(res) ==
    /\ last'.res = res
    /\ UNCHANGED <<goals, userGoalSaves, nextGoalId, ledgerVars>>

\* What a successful withdraw_completed_goal_save of goal `id` does.
WithdrawCompletedEffect(id) ==
    LET user == goals[id].owner
        fee == calculate_fee(goals[id].current_amount, platformFee)
        net == goals[id].current_amount - fee
    IN /\ goals' = [goals EXCEPT ![id].is_withdrawn = TRUE]
       /\ last'.ret = net
       /\ users' = [users EXCEPT ![user].total_balance = @ + net]
       /\ feeBalance' = IF fee > 0 /\ feeRecipient # NoAddress
                        THEN [feeBalance EXCEPT ![feeRecipient] = @ + fee]
                        ELSE feeBalance
       /\ UNCHANGED <<flexiBalance, userGoalSaves, nextGoalId>>

\* C13 as stated: withdraw_completed_goal_save fails with TooEarly when the
\* goal is not completed and with PlanCompleted when it is completed but
\* already withdrawn, changing nothing; on success it sets is_withdrawn,
\* returns net = current_amount - floor(current_amount * bps / 10000), adds
\* net to the owner's total_balance and routes the fee to the recipient.
C13_WithdrawCompletedAsStated ==
    [][OwnerCall("withdraw_completed_goal_save") =>
          LET id == last'.id IN
          /\ ~goals[id].is_completed => GoalRefused("TooEarly")
          /\ (goals[id].is_completed /\ goals[id].is_withdrawn) =>
                GoalRefused("PlanCompleted")
          /\ last'.res = "Ok" => WithdrawCompletedEffect(id)]_vars

\* C13, amended: the same on a contract that is not paused; on a paused
\* contract the call fails with ContractPaused and changes nothing.
C13_WithdrawCompleted ==
    [][OwnerCall("withdraw_completed_goal_save") =>
          LET id == last'.id IN
          /\ paused => GoalRefused("ContractPaused")
          /\ (~paused /\ ~goals[id].is_completed) => GoalRefused("TooEarly")
          /\ (~paused /\ goals[id].is_completed /\ goals[id].is_withdrawn) =>
                GoalRefused("PlanCompleted")
          /\ last'.res = "Ok" => WithdrawCompletedEffect(id)]_vars

\* A completed goal has been withdrawn with a positive fee routed to the
\* recipient: the owner received less than the goal held.
C13_Witness ==
    /\ last.op = "withdraw_completed_goal_save"
    /\ last.res = "Ok"
    /\ last.ret < goals[last.id].current_amount
    /\ last.ret = users[last.caller].total_balance
    /\ feeRecipient = TREASURY
    /\ feeBalance[TREASURY] >= goals[last.id].current_amount - last.ret

\* What a successful break_goal_save of goal `id` does.
BreakEffect(id) ==
    LET user == goals[id].owner
        fee == (goals[id].current_amount * earlyBreakFee) \div BPS_DENOMINATOR
        net == goals[id].current_amount - fee
    IN /\ goals' = [goals EXCEPT ![id].is_withdrawn = TRUE]
       /\ last'.ret = net
       /\ users' = [users EXCEPT ![user].total_balance = @ + net]
       /\ feeBalance' = IF fee > 0 /\ feeRecipient # NoAddress
                        THEN [feeBalance EXCEPT ![feeRecipient] = @ + fee]
                        ELSE feeBalance
       /\ \A i \in DOMAIN userGoalSaves'[user] : userGoalSaves'[user][i] # id
       /\ \A a \in Users \ {user} : userGoalSaves'[a] = userGoalSaves[a]
       /\ UNCHANGED <<flexiBalance, nextGoalId>>

\* C14 as stated: break_goal_save succeeds only on a goal that is neither
\* completed nor withdrawn, otherwise it fails with PlanCompleted and changes
\* nothing; on success it applies the early-break rate (not the protocol
\* rate) to current_amount with floor rounding, credits the net to the
\* owner's total_balance, routes the fee to the recipient, sets is_withdrawn
\* and removes the goal id from the owner's goal list.
C14_BreakAsStated ==
    [][OwnerCall("break_goal_save") =>
          LET id == last'.id IN
          /\ (goals[id].is_completed \/ goals[id].is_withdrawn) =>
                GoalRefused("PlanCompleted")
          /\ last'.res = "Ok" => BreakEffect(id)]_vars

\* C14, amended: the same on a contract that is not paused; on a paused
\* contract the call fails with ContractPaused and changes nothing.
C14_Break ==
    [][OwnerCall("break_goal_save") =>
          LET id == last'.id IN
          /\ paused => GoalRefused("ContractPaused")
          /\ (~paused /\ (goals[id].is_completed \/ goals[id].is_withdrawn)) =>
                GoalRefused("PlanCompleted")
          /\ last'.res = "Ok" =>
                /\ ~goals[id].is_completed
                /\ ~goals[id].is_withdrawn
                /\ BreakEffect(id)]_vars

\* A goal has been broken at an early-break rate that differs from the
\* protocol rate, with a fee that was rounded down and reached the
\* recipient, and the goal is gone from the owner's list.
C14_Witness ==
    /\ last.op = "break_goal_save"
    /\ last.res = "Ok"
    /\ last.ret < goals[last.id].current_amount
    /\ calculate_fee(goals[last.id].current_amount, platformFee)
          # goals[last.id].current_amount - last.ret
    /\ (goals[last.id].current_amount * earlyBreakFee) % BPS_DENOMINATOR # 0
    /\ feeRecipient = TREASURY
    /\ feeBalance[TREASURY] > 0
    /\ userGoalSaves[last.caller] = <<>>

\* What a successful create_goal_save(user, target_amount, initial_deposit)
\* does.
CreateGoalEffect(user, target_amount, initial_deposit) ==
    LET fee == calculate_fee(initial_deposit, platformFee)
        id == nextGoalId
    IN /\ last'.ret = id
       /\ DOMAIN goals' = DOMAIN goals \cup {id}
       /\ \A g \in DOMAIN goals : goals'[g] = goals[g]
       /\ goals'[id].owner = user
       /\ goals'[id].target_amount = target_amount
       /\ goals'[id].current_amount = initial_deposit - fee
       /\ goals'[id].is_completed
             = (goals'[id].current_amount >= target_amount)
       /\ ~goals'[id].is_withdrawn
       /\ nextGoalId' = nextGoalId + 1
       /\ feeBalance' = IF fee > 0 /\ feeRecipient # NoAddress
                        THEN [feeBalance EXCEPT ![feeRecipient] = @ + fee]
                        ELSE feeBalance
       /\ UNCHANGED <<users, flexiBalance>>

\* C15 as stated: create_goal_save fails with InvalidAmount when
\* target_amount <= 0 or initial_deposit < 0 and with UserNotFound when the
\* owner is unregistered, storing no goal and consuming no id; on success the
\* new goal has current_amount = initial_deposit - fee, is_completed =
\* (current_amount >= target_amount), is_withdrawn = false, and the fee is
\* credited to the fee recipient.  The call record keeps the deposit but not
\* the target, so the statement ranges over every target the step is a
\* create_goal_save call for.
C15_CreateGoalAsStated ==
    [][\A t \in GoalTargets :
          (/\ last'.op = "create_goal_save"
           /\ <<CreateGoalSave(last'.caller, t, last'.amount)>>_vars) =>
             /\ (t <= 0 \/ last'.amount < 0) => GoalRefused("InvalidAmount")
             /\ (t > 0 /\ last'.amount >= 0 /\ ~user_exists(last'.caller)) =>
                   GoalRefused("UserNotFound")
             /\ last'.res = "Ok" =>
                   CreateGoalEffect(last'.caller, t, last'.amount)]_vars

\* C15, amended: the same on a contract that is not paused; on a paused
\* contract the call fails with ContractPaused, stores no goal and consumes
\* no id.
C15_CreateGoal ==
    [][\A t \in GoalTargets :
          (/\ last'.op = "create_goal_save"
           /\ <<CreateGoalSave(last'.caller, t, last'.amount)>>_vars) =>
             /\ paused => GoalRefused("ContractPaused")
             /\ (~paused /\ (t <= 0 \/ last'.amount < 0)) =>
                   GoalRefused("InvalidAmount")
             /\ (~paused /\ t > 0 /\ last'.amount >= 0
                   /\ ~user_exists(last'.caller)) =>
                   GoalRefused("UserNotFound")
             /\ last'.res = "Ok" =>
                   CreateGoalEffect(last'.caller, t, last'.amount)]_vars

\* A goal has been created with an initial deposit that covers the target
\* before the fee and falls short of it after: it is not completed, and the
\* fee is with the recipient.
C15_Witness ==
    /\ last.op = "create_goal_save"
    /\ last.res = "Ok"
    /\ last.amount >= goals[last.id].target_amount
    /\ goals[last.id].current_amount < last.amount
    /\ ~goals[last.id].is_completed
    /\ feeBalance[TREASURY] = last.amount - goals[last.id].current_amount

\* What a successful deposit_to_goal_save(goal_id, amount) does.
GoalDepositEffect(id, amount) ==
    LET fee == calculate_fee(amount, platformFee)
        current == goals[id].current_amount + amount - fee
    IN /\ goals' = [goals EXCEPT
                      ![id].current_amount = current,
                      ![id].is_completed = (current >= goals[id].target_amount)]
       /\ feeBalance' = IF fee > 0 /\ feeRecipient # NoAddress
                        THEN [feeBalance EXCEPT ![feeRecipient] = @ + fee]
                        ELSE feeBalance
       /\ UNCHANGED <<users, flexiBalance, userGoalSaves, nextGoalId>>

\* The failures of deposit_to_goal_save in the order of the claim.
GoalDepositFailures(id, user, amount) ==
    /\ amount <= 0 => GoalRefused("InvalidAmount")
    /\ (amount > 0 /\ id \notin DOMAIN goals) => GoalRefused("PlanNotFound")
    /\ (amount > 0 /\ id \in DOMAIN goals /\ goals[id].owner # user) =>
          GoalRefused("Unauthorized")
    /\ (amount > 0 /\ id \in DOMAIN goals /\ goals[id].owner = user
          /\ goals[id].is_completed) => GoalRefused("PlanCompleted")

\* C16 as stated: deposit_to_goal_save fails with InvalidAmount for
\* amount <= 0, PlanNotFound for an unknown goal, Unauthorized for a caller
\* who is not the owner and PlanCompleted for a completed goal, each leaving
\* the goal unchanged; on success current_amount increases by amount - fee,
\* is_completed becomes true iff the new current_amount >= target_amount, and
\* the owner's total_balance and Flexi balance are unchanged.
C16_GoalDepositAsStated ==
    [][last'.op = "deposit_to_goal_save" =>
          /\ GoalDepositFailures(last'.id, last'.caller, last'.amount)
          /\ last'.res = "Ok" =>
                GoalDepositEffect(last'.id, last'.amount)]_vars

\* C16, amended: the same on a contract that is not paused; on a paused
\* contract the call fails with ContractPaused and changes nothing.
C16_GoalDeposit ==
    [][last'.op = "deposit_to_goal_save" =>
          /\ paused => GoalRefused("ContractPaused")
          /\ ~paused =>
                GoalDepositFailures(last'.id, last'.caller, last'.amount)
          /\ last'.res = "Ok" =>
                GoalDepositEffect(last'.id, last'.amount)]_vars

\* A deposit with a positive fee has completed a goal, and the owner's
\* total_balance is still what it was at registration.
C16_Witness ==
    /\ last.op = "deposit_to_goal_save"
    /\ last.res = "Ok"
    /\ calculate_fee(last.amount, platformFee) > 0
    /\ goals[last.id].is_completed
    /\ goals[last.id].current_amount - last.amount
          + calculate_fee(last.amount, platformFee)
          < goals[last.id].target_amount
    /\ users[last.caller].total_balance = 0

\* C17: any exit attempt on an already exited plan fails with PlanCompleted
\* and leaves all balances and the plan unchanged, in every order:
\* withdraw_completed after withdraw_completed, break after break, break
\* after withdraw_completed, withdraw_completed after break, and
\* withdraw_lock_save after withdraw_lock_save.
C17_SecondExit ==
    [][/\ \A op \in GoalExits :
            (OwnerCall(op) /\ goals[last'.id].is_withdrawn) =>
               GoalRefused("PlanCompleted")
       /\ (/\ last'.op = "withdraw_lock_save"
           /\ last'.id \in DOMAIN locks
           /\ locks[last'.id].owner = last'.caller
           /\ locks[last'.id].is_withdrawn) =>
             (/\ last'.res = "PlanCompleted"
              /\ UNCHANGED <<locks, userLockSaves, ledgerVars>>)]_vars

ScenarioLock(id) ==
    /\ id \in DOMAIN locks
    /\ locks[id].amount = 1000
    /\ locks[id].start_time = 1000
    /\ locks[id].maturity_time = locks[id].start_time + 100

\* C19 as stated: for a lock created with amount 1000 and duration 100 at
\* ledger time 1000, check_matured_lock is false at time 1199 and true at
\* time 1200.
C19_MaturityAsStated ==
    (last.op = "check_matured_lock" /\ ScenarioLock(last.id)) =>
       /\ now = 1199 => last.results = <<FALSE>>
       /\ now = 1200 => last.results = <<TRUE>>

\* C19, amended: that lock matures at 1000 + 100: check_matured_lock is false
\* at time 1099 and true at times 1100, 1199 and 1200.
C19_Maturity ==
    (last.op = "check_matured_lock" /\ ScenarioLock(last.id)) =>
       /\ now = 1099 => last.results = <<FALSE>>
       /\ now \in {1100, 1199, 1200} => last.results = <<TRUE>>

\* The lock of the scenario has been asked for its maturity at time 1199 and
\* the answer was true.
C19_Witness ==
    /\ last.op = "check_matured_lock"
    /\ ScenarioLock(last.id)
    /\ now = 1199
    /\ last.results = <<TRUE>>

\* C20: check_matured_lock never fails: it returns false for an id with no
\* lock, and for an existing lock returns true exactly when
\* now >= start_time + duration (true at now = maturity_time, false at
\* maturity_time - 1), regardless of the withdrawn flag.
C20_CheckMatured ==
    last.op = "check_matured_lock" =>
       /\ last.res = "Ok"
       /\ Len(last.results) = 1
       /\ last.id \notin DOMAIN locks => last.results = <<FALSE>>
       /\ last.id \in DOMAIN locks =>
             \E duration \in MaturityDurations :
                /\ locks[last.id].maturity_time
                      = locks[last.id].start_time + duration
                /\ last.results[1]
                      = (now >= locks[last.id].start_time + duration)

\* A withdrawn lock has been asked for its maturity and the answer was true.
C20_Witness ==
    /\ last.op = "check_matured_lock"
    /\ last.id \in DOMAIN locks
    /\ locks[last.id].is_withdrawn
    /\ last.results = <<TRUE>>

C22_WithdrawLockFrame ==
    [][(last'.op = "withdraw_lock_save" /\ last'.res = "Ok") =>
          LET id == last'.id IN
          /\ DOMAIN locks' = DOMAIN locks
          /\ \A other \in DOMAIN locks \ {id} : locks'[other] = locks[other]
          /\ ~locks[id].is_withdrawn
          /\ locks'[id].is_withdrawn
          /\ locks'[id].id = locks[id].id
          /\ locks'[id].owner = locks[id].owner
          /\ locks'[id].amount = locks[id].amount
          /\ locks'[id].interest_rate = locks[id].interest_rate
          /\ locks'[id].start_time = locks[id].start_time
          /\ locks'[id].maturity_time = locks[id].maturity_time
          /\ UNCHANGED <<users, flexiBalance, feeBalance>>
          /\ UNCHANGED <<userLockSaves, nextLockId>>
          /\ \E i \in DOMAIN userLockSaves'[locks[id].owner] :
                userLockSaves'[locks[id].owner][i] = id]_vars

\* A lock of 1000 has been withdrawn after its maturity: it still holds 1000,
\* its id is still in the owner's list, the call returned at least the
\* amount and the owner's total_balance is still 0.
C22_Witness ==
    /\ last.op = "withdraw_lock_save"
    /\ last.res = "Ok"
    /\ last.ret >= 1000
    /\ locks[last.id].is_withdrawn
    /\ locks[last.id].amount = 1000
    /\ now > locks[last.id].maturity_time
    /\ userLockSaves[last.caller] = <<last.id>>
    /\ users[last.caller].total_balance = 0

\* The stored contributions of the members members[i..], added up.
RECURSIVE SumOfContributions(_, _, _)
SumOfContributions(group_id, members, i) ==
    IF i > Len(members) THEN 0
    ELSE groupContribution[<<group_id, members[i]>>]
           + SumOfContributions(group_id, members, i + 1)

\* C23: in every reachable state a group's current_amount equals the sum of
\* the stored contributions of all its members, and each member's stored
\* contribution equals the sum of that member's successful
\* contribute_to_group_save amounts (0 at creation and join, never
\* decreasing).
C23_ContributionSums ==
    /\ [](\A id \in DOMAIN groups :
             /\ groups[id].current_amount
                   = SumOfContributions(id, groupMembers[id], 1)
             /\ \A i \in DOMAIN groupMembers[id] :
                   groupContribution[<<id, groupMembers[id][i]>>]
                      = groupLog[<<id, groupMembers[id][i]>>])
    /\ [][/\ \A k \in DOMAIN groupContribution :
               groupContribution'[k] >= groupContribution[k]
          /\ \A k \in DOMAIN groupContribution' \ DOMAIN groupContribution :
               groupContribution'[k] = 0]_vars

\* C24: a group's is_completed is false while current_amount < target_amount
\* and becomes true on exactly the contribution that first makes
\* current_amount >= target_amount (target 1000 with contributions 300, 200,
\* 500 completes on the third and not before), and it never returns to false
\* afterwards.
C24_GroupCompletion ==
    /\ [](\A id \in DOMAIN groups :
             groups[id].current_amount < groups[id].target_amount =>
                ~groups[id].is_completed)
    /\ [][\A id \in DOMAIN groups :
             /\ groups[id].is_completed => groups'[id].is_completed
             /\ (~groups[id].is_completed /\ groups'[id].is_completed) =>
                   /\ last'.op = "contribute_to_group_save"
                   /\ last'.res = "Ok"
                   /\ last'.id = id
                   /\ groups[id].current_amount < groups[id].target_amount
                   /\ groups'[id].current_amount >= groups[id].target_amount
             /\ (~groups[id].is_completed /\ ~groups'[id].is_completed) =>
                   groups'[id].current_amount < groups[id].target_amount]_vars

\* C25: contribute_to_group_save fails with InvalidAmount for amount <= 0,
\* otherwise PlanNotFound for an unknown group, otherwise NotGroupMember for
\* a caller who is not in the group's member list; in each failure case the
\* group's current_amount, completion flag and every member contribution are
\* unchanged.
C25_ContributeFailures ==
    [][last'.op = "contribute_to_group_save" =>
          LET id == last'.id
              user == last'.caller
              amount == last'.amount
              failure ==
                 IF amount <= 0 THEN "InvalidAmount"
                 ELSE IF id \notin DOMAIN groups THEN "PlanNotFound"
                 ELSE IF \A i \in DOMAIN groupMembers[id] :
                            groupMembers[id][i] # user
                      THEN "NotGroupMember"
                 ELSE "none"
          IN /\ (failure # "none") => last'.res = failure
             /\ (failure = "none") =>
                   last'.res \notin {"InvalidAmount", "PlanNotFound",
                                     "NotGroupMember"}
             /\ (last'.res # "Ok") =>
                   UNCHANGED <<groups, groupContribution, groupMembers>>]_vars

\* A registered user who is not a member of a group that already holds
\* contributions has tried to contribute and was refused.
C25_Witness ==
    /\ last.op = "contribute_to_group_save"
    /\ last.res = "NotGroupMember"
    /\ last.amount > 0
    /\ last.caller \in DOMAIN users
    /\ groups[last.id].current_amount > 0
    /\ <<last.id, last.caller>> \notin DOMAIN groupContribution

\* C26: in every reachable state a group's member_count equals the length of
\* its member list, the list contains no address twice and its first element
\* is the creator; join_group_save by an unregistered user (UserNotFound),
\* otherwise on an unknown group (PlanNotFound), otherwise on a private
\* group or by an existing member (InvalidGroupConfig) changes nothing, and
\* a successful join appends the user, adds 1 to member_count and sets that
\* user's contribution to 0.
C26_Membership ==
    /\ [](\A id \in DOMAIN groups :
             /\ groups[id].member_count = Len(groupMembers[id])
             /\ \A i, j \in DOMAIN groupMembers[id] :
                   groupMembers[id][i] = groupMembers[id][j] => i = j
             /\ Len(groupMembers[id]) >= 1
             /\ groupMembers[id][1] = groups[id].creator)
    /\ [][last'.op = "join_group_save" =>
             LET id == last'.id
                 user == last'.caller
                 expected ==
                    IF user \notin DOMAIN users THEN "UserNotFound"
                    ELSE IF id \notin DOMAIN groups THEN "PlanNotFound"
                    ELSE IF ~groups[id].is_public THEN "InvalidGroupConfig"
                    ELSE IF \E i \in DOMAIN groupMembers[id] :
                               groupMembers[id][i] = user
                         THEN "InvalidGroupConfig"
                    ELSE "Ok"
             IN /\ last'.res = expected
                /\ UNCHANGED <<nextGroupId, ledgerVars>>
                /\ (expected # "Ok") =>
                      UNCHANGED <<groups, groupMembers, groupContribution,
                                  userGroupSaves>>
                /\ (expected = "Ok") =>
                      (/\ groupMembers' =
                            [groupMembers EXCEPT ![id] = Append(@, user)]
                       /\ groups' =
                            [groups EXCEPT ![id].member_count = @ + 1]
                       /\ DOMAIN groupContribution' =
                            DOMAIN groupContribution \cup {<<id, user>>}
                       /\ groupContribution'[<<id, user>>] = 0
                       /\ \A k \in DOMAIN groupContribution :
                            (k # <<id, user>>) =>
                               groupContribution'[k] = groupContribution[k])]_vars

\* A second user has joined a public group that already holds the creator's
\* contribution: two members, the creator first, the newcomer with 0.
C26_Witness ==
    /\ last.op = "join_group_save"
    /\ last.res = "Ok"
    /\ groups[last.id].member_count = 2
    /\ groupMembers[last.id] = <<groups[last.id].creator, last.caller>>
    /\ groupContribution[<<last.id, last.caller>>] = 0
    /\ groupContribution[<<last.id, groups[last.id].creator>>] > 0
    /\ groups[last.id].current_amount > 0

\* C27: a successful contribute_to_group_save of amount a adds exactly a (no
\* fee deducted, whatever the protocol fee bps) to the group's
\* current_amount and to the caller's contribution, and changes no
\* User.total_balance, no Flexi balance and no fee-recipient balance.
C27_ContributeEffect ==
    [][(last'.op = "contribute_to_group_save" /\ last'.res = "Ok") =>
          LET id == last'.id
              key == <<last'.id, last'.caller>>
              a == last'.amount
          IN /\ groups'[id].current_amount = groups[id].current_amount + a
             /\ groupContribution'[key] = groupContribution[key] + a
             /\ \A k \in DOMAIN groupContribution \ {key} :
                   groupContribution'[k] = groupContribution[k]
             /\ UNCHANGED <<users, flexiBalance, feeBalance>>]_vars

\* The operations that require a registered principal.
NeedsUser == {"flexi_deposit", "create_goal_save", "create_lock_save",
              "create_autosave"}

\* Nothing of what these operations store has changed.
NoTrace ==
    UNCHANGED <<users, flexiBalance, feeBalance, goals, nextGoalId,
                userGoalSaves, locks, nextLockId, userLockSaves, autosaves,
                nextAutoSaveId, userAutoSaves>>

\* C28 as stated: for a principal with no User record, flexi_deposit,
\* create_goal_save, create_lock_save and create_autosave each fail with
\* UserNotFound and leave no trace, and none of these operations ever
\* creates a User record.
C28_NeedsUserAsStated ==
    [][last'.op \in NeedsUser =>
          /\ DOMAIN users' = DOMAIN users
          /\ last'.caller \notin DOMAIN users =>
                (last'.res = "UserNotFound" /\ NoTrace)]_vars

\* C28, amended: for a principal with no User record each of the four
\* operations fails and leaves no trace, and none of them ever creates a
\* User record; the failure is UserNotFound when no earlier check fails,
\* that is when the contract is not paused (flexi_deposit and
\* create_goal_save) and the other arguments are valid, and otherwise
\* ContractPaused, InvalidAmount or InvalidTimestamp.
C28_NeedsUser ==
    [][last'.op \in NeedsUser =>
          /\ DOMAIN users' = DOMAIN users
          /\ last'.caller \notin DOMAIN users =>
                LET user == last'.caller
                    amount == last'.amount
                IN
                /\ last'.res \in {"UserNotFound", "ContractPaused",
                                   "InvalidAmount", "InvalidTimestamp"}
                /\ NoTrace
                /\ (last'.op = "flexi_deposit" /\ ~paused /\ amount > 0) =>
                      last'.res = "UserNotFound"
                /\ \A t \in AccountAmounts :
                      (/\ <<CreateGoalSave(user, t, amount)>>_vars
                       /\ ~paused /\ t > 0 /\ amount >= 0) =>
                         last'.res = "UserNotFound"
                /\ \A d \in {0, 1} :
                      (/\ <<CreateLockSave(user, amount, d)>>_vars
                       /\ amount > 0 /\ d > 0) =>
                         last'.res = "UserNotFound"
                /\ \A i \in {0, 1} :
                      (/\ <<CreateAutosave(user, amount, i, 0)>>_vars
                       /\ amount > 0 /\ i > 0) =>
                         last'.res = "UserNotFound"]_vars

\* An unregistered principal has been refused with UserNotFound on a contract
\* that charges a fee to a configured recipient, while a registered one holds
\* a Flexi balance: nothing is stored for the stranger and no fee was
\* credited for the refused call.
C28_Witness ==
    /\ last.op \in NeedsUser
    /\ last.res = "UserNotFound"
    /\ last.caller \notin DOMAIN users
    /\ last.amount > 0
    /\ platformFee > 0
    /\ feeRecipient = TREASURY
    /\ flexiBalance[last.caller] = 0
    /\ \E u \in DOMAIN users : flexiBalance[u] > 0

Pausable == {"flexi_deposit", "flexi_withdraw", "create_goal_save",
             "deposit_to_goal_save", "withdraw_completed_goal_save",
             "break_goal_save"}

\* C30: while the contract is paused, flexi_deposit, flexi_withdraw,
\* create_goal_save, deposit_to_goal_save, withdraw_completed_goal_save and
\* break_goal_save each fail with ContractPaused before any other check
\* (even for otherwise invalid arguments) and change no stored state.
C30_Paused ==
    [][(paused /\ last'.op \in Pausable) =>
          /\ last'.res = "ContractPaused"
          /\ UNCHANGED <<now, configVars, ledgerVars, autosaveVars, planVars>>]_vars

\* On a paused contract a stranger's deposit into a goal that does not exist
\* has been refused with ContractPaused, while the registered owner holds a
\* Flexi balance and a goal.
C30_Witness ==
    /\ paused
    /\ last.op = "deposit_to_goal_save"
    /\ last.res = "ContractPaused"
    /\ last.caller \notin DOMAIN users
    /\ last.id \notin DOMAIN goals
    /\ last.amount = 0
    /\ \E u \in DOMAIN users :
          flexiBalance[u] > 0 /\ userGoalSaves[u] # <<>>

\* C31: while the contract is paused, create_autosave, execute_autosave and
\* initialize_user each fail with ContractPaused and change no stored state,
\* and after unpause the same calls no longer fail with ContractPaused.
C31_PausedSchedules ==
    [][last'.op \in {"create_autosave", "execute_autosave",
                      "initialize_user"} =>
          /\ paused =>
                /\ last'.res = "ContractPaused"
                /\ UNCHANGED <<ledgerVars, autosaveVars, planVars>>
          /\ ~paused => last'.res # "ContractPaused"]_vars

\* C32: for each product (lock, goal, group, autosave) a successful creation
\* returns the current counter value and advances the counter by one, a
\* failed creation and every other operation leave the counter alone, and
\* the ids handed out so far are exactly 1 .. counter - 1; so the k-th
\* successful creation, by whichever user, returns id k.
CreatedBy(op, counter, ids) ==
    /\ last'.op = op /\ last'.res = "Ok" =>
          /\ last'.ret = counter
          /\ counter' = counter + 1
          /\ ids' = ids \cup {counter}
    /\ ~(last'.op = op /\ last'.res = "Ok") =>
          /\ counter' = counter
          /\ ids' = ids

C32_Ids ==
    /\ [](/\ DOMAIN locks = 1..(nextLockId - 1)
          /\ DOMAIN goals = 1..(nextGoalId - 1)
          /\ DOMAIN groups = 1..(nextGroupId - 1)
          /\ DOMAIN autosaves = 1..(nextAutoSaveId - 1))
    /\ [][/\ CreatedBy("create_lock_save", nextLockId, DOMAIN locks)
          /\ CreatedBy("create_goal_save", nextGoalId, DOMAIN goals)
          /\ CreatedBy("create_group_save", nextGroupId, DOMAIN groups)
          /\ CreatedBy("create_autosave", nextAutoSaveId,
                       DOMAIN autosaves)]_vars

\* The two users hold locks 1 and 2, and the creation of a second goal has
\* just been refused.
C32_Witness ==
    /\ nextLockId = 3
    /\ locks[1].owner # locks[2].owner
    /\ nextGoalId = 2 /\ nextGroupId = 3 /\ nextAutoSaveId = 2
    /\ last.op = "create_goal_save" /\ last.res = "InvalidAmount"

\* The net payouts credited so far by the exits of the goals in `ids` that
\* belong to `user`.
RECURSIVE PaidOut(_, _)
PaidOut(user, ids) ==
    IF ids = {} THEN 0
    ELSE LET id == CHOOSE x \in ids : TRUE
         IN (IF goals[id].owner = user THEN goalLog[id].credited ELSE 0)
              + PaidOut(user, ids \ {id})

\* C33: for every registered user, total_balance equals the user's Flexi
\* balance plus the net payouts of the user's exited goals, and so is never
\* below the Flexi balance.
C33_TotalBalance ==
    \A u \in DOMAIN users :
        /\ users[u].total_balance
             = flexiBalance[u] + PaidOut(u, DOMAIN goalLog)
        /\ users[u].total_balance >= flexiBalance[u]

\* C34: a successful create_lock_save of amount a increases the owner's
\* total_balance by a and the owner's savings_count by 1.
C34_LockCredit ==
    [][last'.op = "create_lock_save" /\ last'.res = "Ok" =>
          /\ users'[last'.caller].total_balance
               = users[last'.caller].total_balance + last'.amount
          /\ users'[last'.caller].savings_count
               = users[last'.caller].savings_count + 1]_vars

C36_BatchItems ==
    [][last'.op = "execute_due_autosaves" /\ last'.res = "Ok" =>
          /\ (\A i \in DOMAIN last'.results : ~last'.results[i]) =>
                UNCHANGED <<ledgerVars, autosaves, planVars, configVars>>
          /\ last'.results = <<TRUE>> =>
                LET schedule == autosaves[last'.ids[1]]
                    fee == calculate_fee(schedule.amount, platformFee)
                    net == schedule.amount - fee
                IN
                /\ autosaves' = [autosaves EXCEPT
                      ![schedule.id].next_execution_time =
                          @ + schedule.interval_seconds]
                /\ flexiBalance' =
                      [flexiBalance EXCEPT ![schedule.user] = @ + net]
                /\ users' =
                      [users EXCEPT ![schedule.user].total_balance = @ + net]
                /\ feeBalance' = RouteFee(Ledger, fee).db.fees
                /\ UNCHANGED <<planVars, configVars>>]_vars

\* C37: once a goal has been exited (is_withdrawn) no later operation
\* succeeds on it or changes it: deposit_to_goal_save,
\* withdraw_completed_goal_save and break_goal_save on it fail, and the goal
\* record, its current_amount and is_completed included, never changes again.
C37_ExitedGoalFrozen ==
    [][\A id \in DOMAIN goals :
          goals[id].is_withdrawn =>
            /\ goals'[id] = goals[id]
            /\ last'.op \in {"deposit_to_goal_save",
                              "withdraw_completed_goal_save",
                              "break_goal_save"}
                 /\ last'.id = id
               => last'.res # "Ok"]_vars

\* C38: in every reachable state a goal's is_completed is true exactly when
\* its current_amount >= target_amount; and a goal created with an initial
\* deposit is completed at once exactly when the deposit net of the protocol
\* fee is at least the target.
C38_CompletedIffReached ==
    /\ [](\A id \in DOMAIN goals :
            goals[id].is_completed
              <=> goals[id].current_amount >= goals[id].target_amount)
    /\ [][last'.op = "create_goal_save" /\ last'.res = "Ok" =>
            LET goal == goals'[last'.ret]
                net == last'.amount - calculate_fee(last'.amount, platformFee)
            IN
            /\ goal.current_amount = net
            /\ goal.is_completed <=> net >= goal.target_amount]_vars

\* A goal has just been created whose initial deposit reaches the target
\* before the fee and misses it after the fee: it is not completed.
C38_Witness ==
    /\ last.op = "create_goal_save" /\ last.res = "Ok"
    /\ last.amount >= goals[last.ret].target_amount
    /\ goals[last.ret].current_amount < goals[last.ret].target_amount
    /\ ~goals[last.ret].is_completed

\* The gross amount, the net amount credited on the user side and the fee of
\* the fee-bearing operation that has just returned Ok.
GrossOf(op, id, amount) ==
    IF op \in {"withdraw_completed_goal_save", "break_goal_save"}
    THEN goals[id].current_amount
    ELSE amount

FeeOf(op, id, amount) ==
    IF op = "break_goal_save"
    THEN early_break_fee(GrossOf(op, id, amount), earlyBreakFee)
    ELSE calculate_fee(GrossOf(op, id, amount), platformFee)

FeeBearing ==
    {"flexi_deposit", "create_goal_save", "deposit_to_goal_save",
     "withdraw_completed_goal_save", "break_goal_save"}

NetCredited ==
    IF last'.op = "flexi_deposit"
    THEN flexiBalance'[last'.caller] - flexiBalance[last'.caller]
    ELSE IF last'.op = "create_goal_save"
    THEN goals'[last'.ret].current_amount
    ELSE IF last'.op = "deposit_to_goal_save"
    THEN goals'[last'.id].current_amount - goals[last'.id].current_amount
    ELSE users'[last'.caller].total_balance
           - users[last'.caller].total_balance

\* C39 as stated: for every successful fee-bearing operation the gross
\* amount equals the net amount credited on the user side plus the increase
\* of the fee recipient's balance, whether or not a recipient is configured.
C39_NoValueDroppedAsStated ==
    [][last'.op \in FeeBearing /\ last'.res = "Ok" =>
          GrossOf(last'.op, last'.id, last'.amount)
            = NetCredited + (feeBalance'[TREASURY] - feeBalance[TREASURY])
      ]_vars

\* C39, amended: for every successful fee-bearing operation the net amount
\* credited on the user side is the gross amount less the fee, and the fee
\* recipient's balance grows by the fee when a recipient is configured and
\* by nothing when none is.
C39_NoValueDropped ==
    [][last'.op \in FeeBearing /\ last'.res = "Ok" =>
          LET gross == GrossOf(last'.op, last'.id, last'.amount)
              fee == FeeOf(last'.op, last'.id, last'.amount)
          IN
          /\ gross = NetCredited + fee
          /\ feeBalance'[TREASURY] - feeBalance[TREASURY]
               = IF feeRecipient # NoAddress THEN fee ELSE 0]_vars

\* A completed goal has just been paid out with a fee of at least 1 to the
\* configured recipient.
C39_Witness ==
    /\ last.op = "withdraw_completed_goal_save" /\ last.res = "Ok"
    /\ feeRecipient = TREASURY
    /\ feeBalance[TREASURY] >= 2
    /\ last.ret < goals[last.id].current_amount
    /\ flexiBalance["u1"] = 2

\* C40: for every schedule, next_execution_time equals
\* start_time + k * interval, where k is the number of successful executions
\* so far (single or batch); so up to any ledger time the schedule has been
\* executed at most floor((now - start_time) / interval) + 1 times, and not
\* at all before its start_time.
C40_Progress ==
    \A id \in DOMAIN autosaves :
        LET schedule == autosaves[id]
            start_time == scheduleLog[id].start_time
            k == scheduleLog[id].runs
        IN
        /\ schedule.next_execution_time
             = start_time + k * schedule.interval_seconds
        /\ k <= IF now >= start_time
                THEN (now - start_time) \div schedule.interval_seconds + 1
                ELSE 0

====
